---------------------------- MODULE Spec2Model ----------------------------
(***************************************************************************)
(* Model of the invoice-app record store: the three IndexedDB object       *)
(* stores (clients, estimates, invoices), the entity repositories layered  *)
(* on performTransaction, and the export / import / shareable-backup       *)
(* utilities of src/database/sync.js; then the connection manager of       *)
(* src/database/db.js with calls that overlap, the client search, the      *)
(* install prompt of src/utils/pwa.js, and the caches of service-worker.js.*)
(*                                                                         *)
(* Encoding of JavaScript values                                           *)
(*   - identifiers (UUID strings) are the integers 1..NumIds;              *)
(*   - numbers are decimal fixed point, Scale units to 1 (so 1500 is 1.5); *)
(*     NaN, null and undefined in a number or identifier position are the  *)
(*     three integers NaN, JSNull and Undefined, outside the range of the  *)
(*     numbers used;                                                       *)
(*   - a client name is the sequence of its UTF-16 code units;             *)
(*   - an object is a function from its own property names to values, so   *)
(*     "f \in DOMAIN o" is "o has the property f".                         *)
(***************************************************************************)
EXTENDS Integers, Sequences, FiniteSets, TLC

VARIABLES
    stores,        \* the database: object store name -> (key -> record)
    salesTaxRate,  \* BUSINESS_INFO.salesTaxRate
    last,          \* the last call made: its name, arguments, outcome and
                   \* the stores before it (what the caller observed)
    dbInstance,    \* db.js: the module's connection handle, 0 for null
    connections,   \* the connections to InvoiceAppDB that are open
    opened,        \* how many times indexedDB.open has been called
    queue,         \* the open and delete requests the engine has not served
    disk,          \* the database on disk: its version and its schema
    calls,         \* the calls in flight: where each is and what it holds
    localStorage,  \* window.localStorage: key -> string
    clock,         \* Date.now()
    standalone,    \* the page runs as an installed app (display-mode)
    dismissedTime, \* when dismissInstallPrompt last ran, -1 when it has
                   \* not since the record was last cleared
    caches,        \* CacheStorage of the origin: the caches, oldest first
    worker         \* the service worker: its phase and its last event

engineVars == <<dbInstance, connections, opened, queue, disk, calls>>
swVars == <<caches, worker>>
pwaVars == <<localStorage, clock, standalone, dismissedTime, swVars>>
vars == <<stores, salesTaxRate, last, engineVars, pwaVars>>

---------------------------------------------------------------------------
(* Bounds of the model *)

NumIds == 2          \* identifiers generateId may return
MaxRecords == 2      \* estimates + invoices stored at once (repository runs)
MaxBundleLen == 2    \* records in one hand-made import bundle
NumCalls == 3        \* calls in flight on one page

Ids == 1..NumIds

---------------------------------------------------------------------------
(* JavaScript values *)

Scale == 1000
NaN == -999999
JSNull == -999998
Undefined == -999997

IsNumber(v) == v \notin {NaN, JSNull, Undefined}

\* a * b and a + b on numbers, NaN-propagating as in IEEE arithmetic.
\* undefined converts to NaN, null to 0.  A product is exact when it is a
\* whole number of Scale units, which the quantities and prices used keep.
ToNumber(v) == IF v = Undefined THEN NaN ELSE IF v = JSNull THEN 0 ELSE v

Times(a, b) ==
    LET x == ToNumber(a)
        y == ToNumber(b)
    IN  IF x = NaN \/ y = NaN THEN NaN ELSE (x * y) \div Scale

Plus(a, b) ==
    LET x == ToNumber(a)
        y == ToNumber(b)
    IN  IF x = NaN \/ y = NaN THEN NaN ELSE x + y

\* Math.round(x * 100) / 100 for x given in units of 1/den (den a multiple
\* of 200): the nearest hundredth, a tie going up (Math.round rounds half
\* towards +Infinity).  The result is in Scale units.
RoundCents(x, den) ==
    IF x = NaN THEN NaN
    ELSE ((x + den \div 200) \div (den \div 100)) * (Scale \div 100)

\* { ...a, ...b }
Spread(a, b) ==
    [f \in DOMAIN a \cup DOMAIN b |-> IF f \in DOMAIN b THEN b[f] ELSE a[f]]

\* o.f where f holds a number or an identifier; undefined when absent
Field(o, f) == IF f \in DOMAIN o THEN o[f] ELSE Undefined

\* What an items property can hold besides an array of line items: null,
\* and a value that is truthy but no array (a string such as 'abc')
ItemsNull == <<[null |-> TRUE]>>
ItemsString == <<[string |-> TRUE]>>

\* Array.isArray(items), and items in a condition (every array is truthy,
\* the empty one included; null and an absent property are not)
IsArray(items) == items \notin {ItemsNull, ItemsString}
HasTruthyItems(o) == "items" \in DOMAIN o /\ o.items # ItemsNull

---------------------------------------------------------------------------
(* schema.js *)

STORES == [CLIENTS |-> "clients", ESTIMATES |-> "estimates", INVOICES |-> "invoices"]

StoreNames == {STORES.CLIENTS, STORES.ESTIMATES, STORES.INVOICES}

DB_VERSION == 1

\* SCHEMA[store].indexes, by name
Indexes ==
    [clients   |-> {"name", "email", "phone"},
     estimates |-> {"clientId", "status", "createdAt"},
     invoices  |-> {"clientId", "estimateId", "status", "createdAt"}]

\* SCHEMA[store].keyPath
KeyPath == [clients |-> "clientId", estimates |-> "estimateId", invoices |-> "invoiceId"]

STATUS ==
    [ESTIMATE |-> [DRAFT |-> "draft", SENT |-> "sent",
                   APPROVED |-> "approved", REJECTED |-> "rejected"],
     INVOICE  |-> [DRAFT |-> "draft", SENT |-> "sent", PAID |-> "paid"]]

\* Object.values(STATUS.ESTIMATE), Object.values(STATUS.INVOICE)
EstimateStatuses == {STATUS.ESTIMATE[k] : k \in DOMAIN STATUS.ESTIMATE}
InvoiceStatuses == {STATUS.INVOICE[k] : k \in DOMAIN STATUS.INVOICE}

---------------------------------------------------------------------------
(* db.js: one request in its own transaction on one object store.         *)
(* A request is modelled by its effect on the store's content; the result *)
(* is [err, content, result] with err = "none" when request.onsuccess     *)
(* fired and the name of request.error (or of the exception thrown by the *)
(* call) otherwise.  A failed request leaves the content as it was.       *)

EmptyStore == [k \in {} |-> 0]

\* IndexedDB: the key of a value is read through the store's key path; a
\* missing, null or NaN key is not a valid key (DataError).
HasValidKey(storeName, rec) ==
    /\ KeyPath[storeName] \in DOMAIN rec
    /\ IsNumber(rec[KeyPath[storeName]])

KeyOf(storeName, rec) == rec[KeyPath[storeName]]

\* store.put(rec)
storePut(storeName, content, rec) ==
    IF ~HasValidKey(storeName, rec)
    THEN [err |-> "DataError", content |-> content]
    ELSE [err |-> "none",
          content |-> [k \in DOMAIN content \cup {KeyOf(storeName, rec)} |->
                          IF k = KeyOf(storeName, rec) THEN rec ELSE content[k]]]

\* store.add that replaces the record stored under the same key
storeAdd_Overwrites(storeName, content, rec) == storePut(storeName, content, rec)

\* store.add(rec): strict insertion
storeAdd(storeName, content, rec) ==
    IF ~HasValidKey(storeName, rec)
    THEN [err |-> "DataError", content |-> content]
    ELSE IF KeyOf(storeName, rec) \in DOMAIN content
    THEN [err |-> "ConstraintError", content |-> content]
    ELSE storePut(storeName, content, rec)

\* store.delete(key)
storeDelete(content, key) == [k \in DOMAIN content \ {key} |-> content[k]]

\* store.get(key): the record, or undefined
storeHas(content, key) == key \in DOMAIN content

\* store.clear()
storeClear(content) == EmptyStore

\* store.getAll(): every record, in ascending key order
storeGetAll(content) ==
    LET ks == DOMAIN content
        rank(k) == Cardinality({j \in ks : j < k}) + 1
    IN  [i \in 1..Cardinality(ks) |-> content[CHOOSE k \in ks : rank(k) = i]]

---------------------------------------------------------------------------
(* clients.js *)

\* The result of a repository call is [err, content, value]: the error
\* thrown ("none" when the promise resolved), the new content of the store
\* the call works on, and the value returned.

\* createClient(clientData), with the identifier generateId() returned
createClient(content, clientData, id) ==
    LET client ==
            [clientId |-> id,
             name     |-> IF "name" \in DOMAIN clientData THEN clientData.name ELSE <<>>,
             phone    |-> IF "phone" \in DOMAIN clientData THEN clientData.phone ELSE "",
             email    |-> IF "email" \in DOMAIN clientData THEN clientData.email ELSE "",
             address  |-> IF "address" \in DOMAIN clientData THEN clientData.address ELSE ""]
        w == storeAdd(STORES.CLIENTS, content, client)
    IN  [err |-> w.err, content |-> w.content, value |-> client]

\* updateClient(clientId, updates)
updateClient(content, clientId, updates) ==
    IF ~storeHas(content, clientId)
    THEN [err |-> "not found", content |-> content]
    ELSE LET client == content[clientId]
             updatedClient == Spread(Spread(client, updates), [clientId |-> clientId])
             w == storePut(STORES.CLIENTS, content, updatedClient)
         IN  [err |-> w.err, content |-> w.content, value |-> updatedClient]

\* deleteClient(clientId)
deleteClient(content, clientId) ==
    [err |-> "none", content |-> storeDelete(content, clientId)]

---------------------------------------------------------------------------
(* estimates.js *)

calculateTotal(items) ==
    LET RECURSIVE sum(_)
        sum(n) == IF n = 0 THEN 0
                  ELSE Plus(sum(n - 1), Times(items[n].quantity, items[n].price))
    IN  sum(Len(items))

\* createEstimate without the check of clientId
createEstimate_NoClientCheck(content, estimateData, id, now) ==
    IF ~HasTruthyItems(estimateData) \/ ~IsArray(estimateData.items)
    THEN [err |-> "items array is required", content |-> content]
    ELSE LET estimate ==
                 [estimateId |-> id,
                  clientId   |-> Field(estimateData, "clientId"),
                  items      |-> estimateData.items,
                  total      |-> calculateTotal(estimateData.items),
                  createdAt  |-> now,
                  status     |-> STATUS.ESTIMATE.DRAFT]
             w == storeAdd(STORES.ESTIMATES, content, estimate)
         IN  [err |-> w.err, content |-> w.content, value |-> estimate]

\* createEstimate(estimateData), with the generated identifier and Date.now()
createEstimate(content, estimateData, id, now) ==
    IF Field(estimateData, "clientId") \in {Undefined, JSNull}
    THEN [err |-> "clientId is required", content |-> content]
    ELSE IF ~HasTruthyItems(estimateData) \/ ~IsArray(estimateData.items)
    THEN [err |-> "items array is required", content |-> content]
    ELSE LET estimate ==
                 [estimateId |-> id,
                  clientId   |-> estimateData.clientId,
                  items      |-> estimateData.items,
                  total      |-> calculateTotal(estimateData.items),
                  createdAt  |-> now,
                  status     |-> IF "status" \in DOMAIN estimateData /\ estimateData.status # ""
                                 THEN estimateData.status ELSE STATUS.ESTIMATE.DRAFT]
             w == storeAdd(STORES.ESTIMATES, content, estimate)
         IN  [err |-> w.err, content |-> w.content, value |-> estimate]

\* updateEstimate without the two lines that pin estimateId and createdAt
updateEstimate_Unpinned(content, estimateId, updates) ==
    IF ~storeHas(content, estimateId)
    THEN [err |-> "not found", content |-> content]
    ELSE LET merged == Spread(content[estimateId], updates)
             updatedEstimate ==
                 IF HasTruthyItems(updates) /\ IsArray(updates.items)
                 THEN Spread(merged, [total |-> calculateTotal(updates.items)])
                 ELSE merged
             w == storePut(STORES.ESTIMATES, content, updatedEstimate)
         IN  IF HasTruthyItems(updates) /\ ~IsArray(updates.items)
             THEN [err |-> "TypeError", content |-> content]
             ELSE [err |-> w.err, content |-> w.content, value |-> updatedEstimate]

\* updateEstimate(estimateId, updates)
updateEstimate(content, estimateId, updates) ==
    IF ~storeHas(content, estimateId)
    THEN [err |-> "not found", content |-> content]
    ELSE LET estimate == content[estimateId]
             merged == Spread(Spread(estimate, updates),
                              [estimateId |-> estimateId,
                               createdAt |-> Field(estimate, "createdAt")])
             updatedEstimate ==
                 IF HasTruthyItems(updates)
                 THEN Spread(merged, [total |-> calculateTotal(updates.items)])
                 ELSE merged
             w == storePut(STORES.ESTIMATES, content, updatedEstimate)
         IN  \* items.reduce is not a function when items is no array
             IF HasTruthyItems(updates) /\ ~IsArray(updates.items)
             THEN [err |-> "TypeError", content |-> content]
             ELSE [err |-> w.err, content |-> w.content, value |-> updatedEstimate]

\* deleteEstimate(estimateId)
deleteEstimate(content, estimateId) ==
    [err |-> "none", content |-> storeDelete(content, estimateId)]

\* updateEstimateStatus without the check of newStatus
updateEstimateStatus_Unchecked(content, estimateId, newStatus) ==
    updateEstimate(content, estimateId, [status |-> newStatus])

\* updateEstimateStatus(estimateId, newStatus)
updateEstimateStatus(content, estimateId, newStatus) ==
    IF newStatus \notin EstimateStatuses
    THEN [err |-> "Invalid status", content |-> content]
    ELSE updateEstimate(content, estimateId, [status |-> newStatus])

\* convertEstimateToInvoice that also returns the estimate's total
convertEstimateToInvoice_WithTotal(content, estimateId) ==
    IF ~storeHas(content, estimateId)
    THEN [err |-> "not found", content |-> content]
    ELSE [err |-> "none", content |-> content,
          value |-> [clientId   |-> Field(content[estimateId], "clientId"),
                     estimateId |-> Field(content[estimateId], "estimateId"),
                     items      |-> content[estimateId].items,
                     total      |-> Field(content[estimateId], "total")]]

\* convertEstimateToInvoice(estimateId)
convertEstimateToInvoice(content, estimateId) ==
    IF ~storeHas(content, estimateId)
    THEN [err |-> "not found", content |-> content]
    ELSE [err |-> "none", content |-> content,
          value |-> [clientId   |-> Field(content[estimateId], "clientId"),
                     estimateId |-> Field(content[estimateId], "estimateId"),
                     items      |-> content[estimateId].items]]

---------------------------------------------------------------------------
(* invoices.js *)

\* calculateInvoiceTotals(items), reading BUSINESS_INFO.salesTaxRate
calculateInvoiceTotals(items, rate) ==
    LET RECURSIVE sum(_)
        sum(n) == IF n = 0 THEN 0
                  ELSE Plus(sum(n - 1), Times(items[n].quantity, items[n].price))
        subtotal == sum(Len(items))
        taxRate == IF rate \in {Undefined, JSNull, NaN, 0} THEN 0 ELSE rate
        \* subtotal * taxRate and subtotal + taxAmount, exactly, in units
        \* of 1 / (Scale * Scale)
        taxAmount == IF subtotal = NaN THEN NaN ELSE subtotal * taxRate
        total == IF subtotal = NaN THEN NaN ELSE subtotal * Scale + taxAmount
    IN  [subtotal  |-> RoundCents(subtotal, Scale),
         taxRate   |-> taxRate,
         taxAmount |-> RoundCents(taxAmount, Scale * Scale),
         total     |-> RoundCents(total, Scale * Scale)]

\* createInvoice(invoiceData)
createInvoice(content, invoiceData, id, now, rate) ==
    IF Field(invoiceData, "clientId") \in {Undefined, JSNull}
    THEN [err |-> "clientId is required", content |-> content]
    ELSE IF ~HasTruthyItems(invoiceData) \/ ~IsArray(invoiceData.items)
    THEN [err |-> "items array is required", content |-> content]
    ELSE LET totals == calculateInvoiceTotals(invoiceData.items, rate)
             invoice ==
                 [invoiceId  |-> id,
                  clientId   |-> invoiceData.clientId,
                  estimateId |-> IF Field(invoiceData, "estimateId") = Undefined
                                 THEN JSNull ELSE invoiceData.estimateId,
                  items      |-> invoiceData.items,
                  subtotal   |-> totals.subtotal,
                  taxRate    |-> totals.taxRate,
                  taxAmount  |-> totals.taxAmount,
                  total      |-> totals.total,
                  createdAt  |-> now,
                  status     |-> IF "status" \in DOMAIN invoiceData /\ invoiceData.status # ""
                                 THEN invoiceData.status ELSE STATUS.INVOICE.DRAFT]
             w == storeAdd(STORES.INVOICES, content, invoice)
         IN  [err |-> w.err, content |-> w.content, value |-> invoice]

\* updateInvoice that writes the payload when it finds no invoice
updateInvoice_Upsert(content, invoiceId, updates, rate) ==
    LET invoice == IF storeHas(content, invoiceId) THEN content[invoiceId]
                   ELSE [invoiceId |-> invoiceId]
        updatedInvoice == Spread(Spread(invoice, updates), [invoiceId |-> invoiceId])
        w == storePut(STORES.INVOICES, content, updatedInvoice)
    IN  [err |-> w.err, content |-> w.content, value |-> updatedInvoice]

\* updateInvoice(invoiceId, updates)
updateInvoice(content, invoiceId, updates, rate) ==
    IF ~storeHas(content, invoiceId)
    THEN [err |-> "not found", content |-> content]
    ELSE LET invoice == content[invoiceId]
             merged == Spread(Spread(invoice, updates),
                              [invoiceId |-> invoiceId,
                               createdAt |-> Field(invoice, "createdAt")])
             updatedInvoice ==
                 IF HasTruthyItems(updates)
                 THEN Spread(merged, calculateInvoiceTotals(updates.items, rate))
                 ELSE merged
             w == storePut(STORES.INVOICES, content, updatedInvoice)
         IN  \* items.reduce is not a function when items is no array
             IF HasTruthyItems(updates) /\ ~IsArray(updates.items)
             THEN [err |-> "TypeError", content |-> content]
             ELSE [err |-> w.err, content |-> w.content, value |-> updatedInvoice]

\* deleteInvoice(invoiceId)
deleteInvoice(content, invoiceId) ==
    [err |-> "none", content |-> storeDelete(content, invoiceId)]

\* updateInvoiceStatus(invoiceId, newStatus)
updateInvoiceStatus(content, invoiceId, newStatus, rate) ==
    IF newStatus \notin InvoiceStatuses
    THEN [err |-> "Invalid status", content |-> content]
    ELSE updateInvoice(content, invoiceId, [status |-> newStatus], rate)

\* markInvoiceAsPaid(invoiceId)
markInvoiceAsPaid(content, invoiceId, rate) ==
    updateInvoiceStatus(content, invoiceId, STATUS.INVOICE.PAID, rate)

---------------------------------------------------------------------------
(* sync.js *)

\* The three loops of importData, in source order.
ImportOrder == <<STORES.CLIENTS, STORES.ESTIMATES, STORES.INVOICES>>

\* An import payload is the object handed to importData: NullPayload for a
\* falsy value, otherwise an object whose "data" property (when present)
\* holds the arrays.  payload.nonIterable names the properties of data
\* whose value is truthy but not iterable (a number, a plain object).
NullPayload == [null |-> TRUE]

\* const { clients = [], estimates = [], invoices = [] } = importData.data
DataList(payload, storeName) ==
    IF storeName \in DOMAIN payload.data THEN payload.data[storeName] ELSE <<>>

IsIterable(payload, storeName) ==
    ~("nonIterable" \in DOMAIN payload /\ storeName \in payload.nonIterable)

\* exportAllData(), with the stores read and new Date().toISOString()
exportAllData(db, now) ==
    LET clientList == storeGetAll(db[STORES.CLIENTS])
        estimateList == storeGetAll(db[STORES.ESTIMATES])
        invoiceList == storeGetAll(db[STORES.INVOICES])
    IN  [version    |-> 1,
         exportDate |-> now,
         data       |-> [clients |-> clientList, estimates |-> estimateList,
                         invoices |-> invoiceList],
         metadata   |-> [clientCount |-> Len(clientList),
                         estimateCount |-> Len(estimateList),
                         invoiceCount |-> Len(invoiceList)]]

\* clearAllData that clears the clients store only
clearAllData_OnlyClients(db) ==
    [s \in DOMAIN db |-> IF s = STORES.CLIENTS THEN storeClear(db[s]) ELSE db[s]]

\* clearAllData(): store.clear() on each of the three stores
clearAllData(db) == [s \in DOMAIN db |-> storeClear(db[s])]

NoResults ==
    [s \in StoreNames |-> [imported |-> 0, skipped |-> 0, errors |-> 0]]

\* importWrite that inserts strictly in every mode
importWrite_AlwaysAdd(mode, storeName, content, rec) ==
    storeAdd(storeName, content, rec)

\* importWrite that upserts in every mode
importWrite_AlwaysPut(mode, storeName, content, rec) ==
    storePut(storeName, content, rec)

\* mode === 'merge' ? store.put(record) : store.add(record)
importWrite(mode, storeName, content, rec) ==
    IF mode = "merge" THEN storePut(storeName, content, rec)
    ELSE storeAdd(storeName, content, rec)

\* tally without the errors++ of the catch block
tally_DropsErrors(results, storeName, err) ==
    IF err = "none"
    THEN [results EXCEPT ![storeName].imported = @ + 1]
    ELSE IF err = "ConstraintError"
    THEN [results EXCEPT ![storeName].skipped = @ + 1]
    ELSE results

\* The try / catch around one record: results after the write ended with err
tally(results, storeName, err) ==
    IF err = "none"
    THEN [results EXCEPT ![storeName].imported = @ + 1]
    ELSE IF err = "ConstraintError"
    THEN [results EXCEPT ![storeName].skipped = @ + 1]
    ELSE [results EXCEPT ![storeName].errors = @ + 1]

\* One iteration of an import loop.  st = [db, results, outcomes]: the
\* stores, the tallies, and the log of the writes (the record, how the
\* request ended, the stores after it).  faultAt is the number of the write
\* (counted over the whole import) that the engine fails with an error of
\* its own (0: none).
importRecord(st, mode, storeName, rec, faultAt) ==
    LET w == IF Len(st.outcomes) + 1 = faultAt
             THEN [err |-> "UnknownError", content |-> st.db[storeName]]
             ELSE importWrite(mode, storeName, st.db[storeName], rec)
    IN  [db       |-> [st.db EXCEPT ![storeName] = w.content],
         results  |-> tally(st.results, storeName, w.err),
         outcomes |-> Append(st.outcomes,
                             [store |-> storeName, rec |-> rec, err |-> w.err,
                              db |-> [st.db EXCEPT ![storeName] = w.content]])]

\* importList whose loop ends at the first record that fails
importList_StopsAtFailure(st, mode, storeName, list, faultAt) ==
    LET RECURSIVE loop(_)
        loop(n) ==
            IF n = 0 THEN st
            ELSE LET before == loop(n - 1)
                 IN  IF \E i \in 1..Len(before.outcomes) : before.outcomes[i].err # "none"
                     THEN before
                     ELSE importRecord(before, mode, storeName, list[n], faultAt)
    IN  loop(Len(list))

\* for (const record of list) { ... }
importList(st, mode, storeName, list, faultAt) ==
    LET RECURSIVE loop(_)
        loop(n) == IF n = 0 THEN st
                   ELSE importRecord(loop(n - 1), mode, storeName, list[n], faultAt)
    IN  loop(Len(list))

\* The body of importData after the check of the payload: the clearing of
\* a replace import, then the three loops
importLoops(db, payload, mode, faultAt) ==
    LET start == [db |-> IF mode = "replace" THEN clearAllData(db) ELSE db,
                  results |-> NoResults,
                  outcomes |-> <<>>]
        RECURSIVE from(_, _)
        from(st, k) ==
            IF k > Len(ImportOrder)
            THEN Spread(st, [err |-> "none"])
            ELSE IF ~IsIterable(payload, ImportOrder[k])
            THEN Spread(st, [err |-> "TypeError"])
            ELSE from(importList(st, mode, ImportOrder[k],
                                 DataList(payload, ImportOrder[k]), faultAt),
                      k + 1)
    IN  from(start, 1)

\* importData that clears the stores of a replace import before it looks
\* at the payload
importData_ClearsBeforeCheck(db, payload, mode, faultAt) ==
    IF "null" \in DOMAIN payload \/ "data" \notin DOMAIN payload
    THEN [err |-> "Invalid import data format",
          db |-> IF mode = "replace" THEN clearAllData(db) ELSE db,
          results |-> NoResults, outcomes |-> <<>>]
    ELSE importLoops(db, payload, mode, faultAt)

\* importData(importData, mode): [err, db, results, outcomes]
importData(db, payload, mode, faultAt) ==
    IF "null" \in DOMAIN payload \/ "data" \notin DOMAIN payload
    THEN [err |-> "Invalid import data format", db |-> db,
          results |-> NoResults, outcomes |-> <<>>]
    ELSE importLoops(db, payload, mode, faultAt)

(***************************************************************************)
(* JSON.stringify / JSON.parse and btoa / atob.                            *)
(* A text is [json, value]: whether it is a JSON text, and the value it    *)
(* denotes.  A string handed to atob is [base64, text]: whether it is a    *)
(* base64 string, and the text it encodes.  JSON.stringify is modelled by  *)
(* what it keeps of a value: a NaN number is written as null, a property   *)
(* holding undefined is left out.  btoa is defined only on strings of code *)
(* units up to 255.                                                        *)
(***************************************************************************)
NumberFields ==
    {"clientId", "estimateId", "invoiceId", "total", "subtotal", "taxRate",
     "taxAmount", "createdAt", "quantity", "price"}

RECURSIVE JSONofObject(_)
JSONofObject(o) ==
    LET kept == {f \in DOMAIN o : f \in NumberFields => o[f] # Undefined}
    IN  [f \in kept |->
            IF f \in NumberFields THEN (IF o[f] = NaN THEN JSNull ELSE o[f])
            ELSE IF f = "items" THEN [i \in 1..Len(o[f]) |-> JSONofObject(o[f][i])]
            ELSE o[f]]

JSONofList(list) == [i \in 1..Len(list) |-> JSONofObject(list[i])]

\* JSON.stringify(exportData)
JSONstringify(exportData) ==
    [json  |-> TRUE,
     value |-> [exportData EXCEPT !.data = [s \in DOMAIN @ |-> JSONofList(@[s])]]]

\* JSON.parse(text)
JSONparse(text) ==
    IF text.json THEN [err |-> "none", value |-> text.value]
    ELSE [err |-> "SyntaxError"]

\* The code units of a text that are modelled one by one: the client names
CodeUnits(text) ==
    IF text.json /\ "data" \in DOMAIN text.value /\ STORES.CLIENTS \in DOMAIN text.value.data
    THEN LET list == text.value.data[STORES.CLIENTS]
         IN  UNION {{list[i].name[j] : j \in 1..Len(list[i].name)} :
                      i \in {n \in 1..Len(list) : "name" \in DOMAIN list[n]}}
    ELSE {}

Latin1Max == 255

\* btoa(text)
btoa(text) ==
    IF \E c \in CodeUnits(text) : c > Latin1Max
    THEN [err |-> "InvalidCharacterError"]
    ELSE [err |-> "none", value |-> [base64 |-> TRUE, text |-> text]]

\* atob(string)
atob(string) ==
    IF string.base64 THEN [err |-> "none", value |-> string.text]
    ELSE [err |-> "InvalidCharacterError"]

\* createShareableBackup(): [err, value]
createShareableBackup(db, now) ==
    btoa(JSONstringify(exportAllData(db, now)))

\* restoreFromShareableBackup(backupString, mode): [err, db, results, outcomes]
restoreFromShareableBackup(db, backupString, mode, faultAt) ==
    LET failed == [err |-> "Failed to restore backup", db |-> db,
                   results |-> NoResults, outcomes |-> <<>>]
        decoded == atob(backupString)
        parsed == JSONparse(decoded.value)
        r == importData(db, parsed.value, mode, faultAt)
    IN  IF decoded.err # "none" THEN failed
        ELSE IF parsed.err # "none" THEN failed
        ELSE IF r.err # "none" THEN [r EXCEPT !.err = "Failed to restore backup"]
        ELSE r

---------------------------------------------------------------------------
(* The calls, as actions.  Each performs one whole call on the database    *)
(* and records it in last.                                                 *)

\* salesTaxRate: 0.06 in config/business.js
ConfiguredSalesTaxRate == 60

\* No database named InvoiceAppDB on disk (its version reads as 0), and the
\* database this module's handler leaves there
NoDatabase == [version |-> 0, schema |-> [s \in {} |-> {}]]
Installed == [version |-> DB_VERSION, schema |-> Indexes]

\* The calls a page may have in flight, none of them made yet
CallIds == 1..NumCalls
NotCalled == [pc |-> "idle"]

\* localStorage without the dismissal record
NoItems == [k \in {} |-> <<>>]

\* The service worker script has been read and no event has reached it
Parsed == [phase |-> "parsed", event |-> "none"]

\* The page has opened the database and its stores are empty; the calls
\* below are made one at a time on that connection.
Init ==
    /\ stores = [s \in StoreNames |-> EmptyStore]
    /\ salesTaxRate = ConfiguredSalesTaxRate
    /\ last = [op |-> "none"]
    /\ dbInstance = 1
    /\ connections = {1}
    /\ opened = 1
    /\ queue = <<>>
    /\ disk = Installed
    /\ calls = [c \in CallIds |-> NotCalled]
    /\ localStorage = NoItems
    /\ clock = 0
    /\ standalone = FALSE
    /\ dismissedTime = -1
    /\ caches = <<>>
    /\ worker = Parsed

\* The caller makes its calls one after the other: it reads the outcome of
\* a call (last) and then goes on to the next one.
Idle == last.op = "none"

Continue ==
    /\ ~Idle
    /\ last' = [op |-> "none"]
    /\ UNCHANGED <<stores, salesTaxRate, engineVars, pwaVars>>

\* A repository call on one store that ended with result r
Returned(op, storeName, args, r) ==
    /\ Idle
    /\ stores' = [stores EXCEPT ![storeName] = r.content]
    /\ last' = Spread(args, [op |-> op, err |-> r.err, pre |-> stores])
    /\ UNCHANGED <<salesTaxRate, engineVars, pwaVars>>

CreateClient(clientData, id) ==
    Returned("createClient", STORES.CLIENTS, [data |-> clientData, id |-> id],
             createClient(stores[STORES.CLIENTS], clientData, id))

UpdateClient(clientId, updates) ==
    Returned("updateClient", STORES.CLIENTS, [id |-> clientId, updates |-> updates],
             updateClient(stores[STORES.CLIENTS], clientId, updates))

\* deleteClient that also deletes the client's estimates and invoices
DeleteClient_Cascade(clientId) ==
    /\ Idle
    /\ stores' = [s \in StoreNames |->
                    IF s = STORES.CLIENTS THEN storeDelete(stores[s], clientId)
                    ELSE LET kept == {k \in DOMAIN stores[s] :
                                        Field(stores[s][k], "clientId") # clientId}
                         IN  [k \in kept |-> stores[s][k]]]
    /\ last' = [op |-> "deleteClient", id |-> clientId, err |-> "none", pre |-> stores]
    /\ UNCHANGED <<salesTaxRate, engineVars, pwaVars>>

DeleteClient(clientId) ==
    Returned("deleteClient", STORES.CLIENTS, [id |-> clientId],
             deleteClient(stores[STORES.CLIENTS], clientId))

CreateEstimate(estimateData, id, now) ==
    Returned("createEstimate", STORES.ESTIMATES, [data |-> estimateData, id |-> id],
             createEstimate(stores[STORES.ESTIMATES], estimateData, id, now))

UpdateEstimate(estimateId, updates) ==
    Returned("updateEstimate", STORES.ESTIMATES, [id |-> estimateId, updates |-> updates],
             updateEstimate(stores[STORES.ESTIMATES], estimateId, updates))

DeleteEstimate(estimateId) ==
    Returned("deleteEstimate", STORES.ESTIMATES, [id |-> estimateId],
             deleteEstimate(stores[STORES.ESTIMATES], estimateId))

\* updateEstimateStatus that lets no estimate leave approved or rejected
UpdateEstimateStatus_Directed(estimateId, newStatus) ==
    LET content == stores[STORES.ESTIMATES]
        closed == /\ estimateId \in DOMAIN content
                  /\ Field(content[estimateId], "status")
                        \in {STATUS.ESTIMATE.APPROVED, STATUS.ESTIMATE.REJECTED}
    IN  Returned("updateEstimateStatus", STORES.ESTIMATES,
                 [id |-> estimateId, status |-> newStatus],
                 IF closed THEN [err |-> "Invalid transition", content |-> content]
                 ELSE updateEstimateStatus(content, estimateId, newStatus))

UpdateEstimateStatus(estimateId, newStatus) ==
    Returned("updateEstimateStatus", STORES.ESTIMATES,
             [id |-> estimateId, status |-> newStatus],
             updateEstimateStatus(stores[STORES.ESTIMATES], estimateId, newStatus))

CreateInvoice(invoiceData, id, now) ==
    Returned("createInvoice", STORES.INVOICES, [data |-> invoiceData, id |-> id],
             createInvoice(stores[STORES.INVOICES], invoiceData, id, now, salesTaxRate))

UpdateInvoice(invoiceId, updates) ==
    Returned("updateInvoice", STORES.INVOICES, [id |-> invoiceId, updates |-> updates],
             updateInvoice(stores[STORES.INVOICES], invoiceId, updates, salesTaxRate))

DeleteInvoice(invoiceId) ==
    Returned("deleteInvoice", STORES.INVOICES, [id |-> invoiceId],
             deleteInvoice(stores[STORES.INVOICES], invoiceId))

UpdateInvoiceStatus(invoiceId, newStatus) ==
    Returned("updateInvoiceStatus", STORES.INVOICES,
             [id |-> invoiceId, status |-> newStatus],
             updateInvoiceStatus(stores[STORES.INVOICES], invoiceId, newStatus, salesTaxRate))

MarkInvoiceAsPaid(invoiceId) ==
    Returned("markInvoiceAsPaid", STORES.INVOICES, [id |-> invoiceId],
             markInvoiceAsPaid(stores[STORES.INVOICES], invoiceId, salesTaxRate))

\* convertEstimateToInvoice(estimateId): reads the estimates store
ConvertEstimateToInvoice(estimateId) ==
    LET r == convertEstimateToInvoice(stores[STORES.ESTIMATES], estimateId)
    IN  /\ Idle
        /\ stores' = [stores EXCEPT ![STORES.ESTIMATES] = r.content]
        /\ last' = [op |-> "convertEstimateToInvoice", id |-> estimateId,
                    err |-> r.err, pre |-> stores,
                    value |-> IF r.err = "none" THEN r.value ELSE [none |-> TRUE]]
        /\ UNCHANGED <<salesTaxRate, engineVars, pwaVars>>

\* BUSINESS_INFO.salesTaxRate is given another value (the line of
\* config/business.js is edited, or the property is assigned)
ConfigureSalesTaxRate(rate) ==
    /\ Idle
    /\ rate # salesTaxRate
    /\ salesTaxRate' = rate
    /\ UNCHANGED <<stores, last, engineVars, pwaVars>>

ExportAllData(now) ==
    /\ Idle
    /\ last' = [op |-> "exportAllData", err |-> "none", pre |-> stores,
                value |-> exportAllData(stores, now)]
    /\ UNCHANGED <<stores, salesTaxRate, engineVars, pwaVars>>

ClearAllData ==
    /\ Idle
    /\ stores' = clearAllData(stores)
    /\ last' = [op |-> "clearAllData", err |-> "none", pre |-> stores]
    /\ UNCHANGED <<salesTaxRate, engineVars, pwaVars>>

ImportData(payload, mode, faultAt) ==
    LET r == importData(stores, payload, mode, faultAt)
    IN  /\ Idle
        /\ stores' = r.db
        /\ last' = [op |-> "importData", payload |-> payload, mode |-> mode,
                    faultAt |-> faultAt, err |-> r.err, pre |-> stores,
                    results |-> r.results, outcomes |-> r.outcomes]
        /\ UNCHANGED <<salesTaxRate, engineVars, pwaVars>>

CreateShareableBackup(now) ==
    /\ Idle
    /\ last' = Spread(createShareableBackup(stores, now),
                      [op |-> "createShareableBackup", pre |-> stores])
    /\ UNCHANGED <<stores, salesTaxRate, engineVars, pwaVars>>

RestoreFromShareableBackup(backupString, mode, faultAt) ==
    LET r == restoreFromShareableBackup(stores, backupString, mode, faultAt)
    IN  /\ Idle
        /\ stores' = r.db
        /\ last' = [op |-> "restoreFromShareableBackup", string |-> backupString,
                    mode |-> mode, faultAt |-> faultAt, err |-> r.err, pre |-> stores,
                    results |-> r.results, outcomes |-> r.outcomes]
        /\ UNCHANGED <<salesTaxRate, engineVars, pwaVars>>

---------------------------------------------------------------------------
(* Repository runs: estimates and invoices created, updated, deleted,      *)
(* re-labelled and imported, one call after the other.                     *)

Timestamps == {1}

\* [{ description: 'Mow', quantity: 1, price: 50 }]
MowItems == <<[description |-> "Mow", quantity |-> 1 * Scale, price |-> 50 * Scale]>>

\* Every value of either enumeration, and one that is in neither
StatusInputs == EstimateStatuses \cup InvoiceStatuses \cup {"bogus"}

RepoCreateInputs ==
    {[clientId |-> 1, items |-> MowItems]}
        \cup {[clientId |-> 1, items |-> MowItems, status |-> s] : s \in StatusInputs}

RepoUpdateInputs == {[status |-> s] : s \in StatusInputs}

\* A bundle of one estimate or one invoice, as another device exported it,
\* and one whose estimate was written without createdAt
RepoImportInputs ==
    {[data |-> [estimates |->
        <<[estimateId |-> 1, clientId |-> 1, items |-> MowItems, total |-> 50 * Scale,
           createdAt |-> 1, status |-> s]>>]] : s \in {"approved", "bogus"}}
    \cup
    {[data |-> [estimates |->
        <<[estimateId |-> 2, clientId |-> 1, items |-> MowItems, total |-> 50 * Scale,
           status |-> STATUS.ESTIMATE.SENT]>>]]}
    \cup
    {[data |-> [invoices |->
        <<[invoiceId |-> 1, clientId |-> 1, estimateId |-> JSNull, items |-> MowItems,
           subtotal |-> 50 * Scale, taxRate |-> ConfiguredSalesTaxRate,
           taxAmount |-> 3 * Scale, total |-> 53 * Scale,
           createdAt |-> 1, status |-> s]>>]] : s \in {"paid", "bogus"}}

RecordCount(db) ==
    Cardinality(DOMAIN db[STORES.ESTIMATES]) + Cardinality(DOMAIN db[STORES.INVOICES])

NextRepo ==
    \/ \E data \in RepoCreateInputs, id \in Ids, now \in Timestamps :
          /\ RecordCount(stores) < MaxRecords
          /\ CreateEstimate(data, id, now)
    \/ \E id \in Ids, updates \in RepoUpdateInputs : UpdateEstimate(id, updates)
    \/ \E id \in Ids, s \in StatusInputs : UpdateEstimateStatus(id, s)
    \/ \E id \in Ids : DeleteEstimate(id)
    \/ \E data \in RepoCreateInputs, id \in Ids, now \in Timestamps :
          /\ RecordCount(stores) < MaxRecords
          /\ CreateInvoice(data, id, now)
    \/ \E id \in Ids, updates \in RepoUpdateInputs : UpdateInvoice(id, updates)
    \/ \E id \in Ids, s \in StatusInputs : UpdateInvoiceStatus(id, s)
    \/ \E id \in Ids : MarkInvoiceAsPaid(id)
    \/ \E id \in Ids : DeleteInvoice(id)
    \/ \E payload \in RepoImportInputs, mode \in {"merge", "replace"} :
          /\ RecordCount(importData(stores, payload, mode, 0).db) <= MaxRecords
          /\ ImportData(payload, mode, 0)
    \/ Continue

SpecRepo == Init /\ [][NextRepo]_vars

---------------------------------------------------------------------------
(* Synchronisation runs: records arrive by create calls and by imports,    *)
(* and are exported, backed up, cleared and restored.                      *)

\* "Al", "Bo", "Cy" and, with a code unit above 255, "Łu"
NameAl == <<65, 108>>
NameBo == <<66, 111>>
NameCy == <<67, 121>>
NameLu == <<321, 117>>

\* Two versions of client 1, and a record without clientId
ClientAl == [clientId |-> 1, name |-> NameAl, phone |-> "555-1234", email |-> "", address |-> ""]
ClientBo == [clientId |-> 1, name |-> NameBo, phone |-> "555-5678", email |-> "", address |-> ""]
ClientNoKey == [name |-> NameCy, phone |-> "", email |-> "", address |-> ""]

EstimateMow ==
    [estimateId |-> 1, clientId |-> 1, items |-> MowItems, total |-> 50 * Scale,
     createdAt |-> 1, status |-> STATUS.ESTIMATE.SENT]

InvoiceMow ==
    [invoiceId |-> 1, clientId |-> 1, estimateId |-> 1, items |-> MowItems,
     subtotal |-> 50 * Scale, taxRate |-> ConfiguredSalesTaxRate,
     taxAmount |-> 3 * Scale, total |-> 53 * Scale,
     createdAt |-> 1, status |-> STATUS.INVOICE.DRAFT]

SyncClientPool == {ClientAl, ClientBo, ClientNoKey}
SyncEstimatePool == {EstimateMow}
SyncInvoicePool == {InvoiceMow}

SeqsUpTo(S, n) == UNION {[1..k -> S] : k \in 0..n}

\* The bundles given to importData by hand: up to MaxBundleLen records
SyncBundles ==
    {[data |-> [clients |-> c, estimates |-> e, invoices |-> i]] :
        <<c, e, i>> \in
            {t \in SeqsUpTo(SyncClientPool, MaxBundleLen)
                      \X SeqsUpTo(SyncEstimatePool, MaxBundleLen)
                      \X SeqsUpTo(SyncInvoicePool, MaxBundleLen) :
                Len(t[1]) + Len(t[2]) + Len(t[3]) <= MaxBundleLen}}

\* Payloads that are not bundles: null, an object without data, and
\* objects whose data.clients or data.invoices is a number
MalformedPayloads ==
    {NullPayload,
     [version |-> 1],
     [data |-> [clients |-> <<>>, estimates |-> <<>>, invoices |-> <<>>],
      nonIterable |-> {STORES.CLIENTS}],
     [data |-> [clients |-> <<ClientBo>>, estimates |-> <<>>, invoices |-> <<>>],
      nonIterable |-> {STORES.INVOICES}]}

\* Strings given to restoreFromShareableBackup that no createShareableBackup
\* produced here: not base64; base64 of a text that is not JSON; base64 of
\* the JSON text of a malformed payload; a backup made on another device
NotBase64 == [base64 |-> FALSE]
NotJSON == [base64 |-> TRUE, text |-> [json |-> FALSE]]

ForeignStrings ==
    {NotBase64, NotJSON}
        \cup {[base64 |-> TRUE, text |-> [json |-> TRUE, value |-> p]] :
                p \in MalformedPayloads}
        \cup {[base64 |-> TRUE,
               text |-> [json |-> TRUE,
                         value |-> [data |-> [clients |-> <<ClientBo>>,
                                              estimates |-> <<EstimateMow>>,
                                              invoices |-> <<>>]]]]}

SyncClientInputs == {[name |-> NameLu, phone |-> "555-1234"]}

\* A line whose quantity did not parse as a number
SyncEstimateInputs ==
    {[clientId |-> 1,
      items |-> <<[description |-> "Mow", quantity |-> NaN, price |-> 50 * Scale]>>]}

\* The number of writes an import of payload attempts at most
PayloadLen(payload) ==
    IF "data" \in DOMAIN payload
    THEN Len(DataList(payload, STORES.CLIENTS)) + Len(DataList(payload, STORES.ESTIMATES))
            + Len(DataList(payload, STORES.INVOICES))
    ELSE 0

\* The strings the caller can hand to a restore: a foreign one, or the one
\* createShareableBackup returns now
BackupStrings(db) ==
    ForeignStrings \cup
        {createShareableBackup(db, now).value :
            now \in {t \in Timestamps : createShareableBackup(db, t).err = "none"}}

StringLen(string) ==
    IF string.base64 /\ string.text.json THEN PayloadLen(string.text.value) ELSE 0

NextSync ==
    \/ \E data \in SyncClientInputs, id \in Ids : CreateClient(data, id)
    \/ \E data \in SyncEstimateInputs, id \in Ids, now \in Timestamps :
          CreateEstimate(data, id, now)
    \/ \E now \in Timestamps : ExportAllData(now)
    \/ ClearAllData
    \/ \E payload \in SyncBundles \cup MalformedPayloads, mode \in {"merge", "replace"} :
          \E faultAt \in 0..PayloadLen(payload) : ImportData(payload, mode, faultAt)
    \/ \E now \in Timestamps, mode \in {"merge", "replace"} :
          \E faultAt \in 0..PayloadLen(exportAllData(stores, now)) :
              ImportData(exportAllData(stores, now), mode, faultAt)
    \/ \E now \in Timestamps : CreateShareableBackup(now)
    \/ \E string \in BackupStrings(stores), mode \in {"merge", "replace"} :
          \E faultAt \in 0..StringLen(string) :
              RestoreFromShareableBackup(string, mode, faultAt)
    \/ Continue

SpecSync == Init /\ [][NextSync]_vars

---------------------------------------------------------------------------
(* Properties of the synchronisation runs *)

\* The payload an import or restore of last worked on
PayloadOf(call) ==
    IF call.op = "importData" THEN call.payload
    ELSE JSONparse(atob(call.string).value).value

\* A payload importData can iterate: an object with data, every list of
\* which is iterable
IsBundle(payload) ==
    /\ "null" \notin DOMAIN payload
    /\ "data" \in DOMAIN payload
    /\ \A s \in StoreNames : IsIterable(payload, s)

DecodesToBundle(string) ==
    /\ string.base64
    /\ string.text.json
    /\ IsBundle(string.text.value)

\* The positions of list whose record has the key k
Positions(s, list, k) ==
    {i \in 1..Len(list) : HasValidKey(s, list[i]) /\ KeyOf(s, list[i]) = k}

BundleKeys(s, list) ==
    {KeyOf(s, list[i]) : i \in {j \in 1..Len(list) : HasValidKey(s, list[j])}}

Min(S) == CHOOSE x \in S : \A y \in S : x <= y
Max(S) == CHOOSE x \in S : \A y \in S : x >= y

\* The records of the bundle in the order importData takes them
Flat(payload) ==
    DataList(payload, STORES.CLIENTS) \o DataList(payload, STORES.ESTIMATES)
        \o DataList(payload, STORES.INVOICES)

\* The stores before write i of the import that last records
DbBefore(i) ==
    IF i > 1 THEN last.outcomes[i - 1].db
    ELSE IF last.mode = "replace" THEN [s \in StoreNames |-> EmptyStore]
    ELSE last.pre

Count(s, errs) ==
    Cardinality({i \in 1..Len(last.outcomes) :
                    last.outcomes[i].store = s /\ last.outcomes[i].err \in errs})

ExportedJustBefore ==
    \E now \in Timestamps : last.payload = exportAllData(last.pre, now)

\* C1: importData(exportAllData(), 'replace'), no write in between and no
\* engine failure, resolves, leaves every store with exactly the records it
\* held, and tallies each of them as imported.
C1_RoundTrip ==
    (/\ last.op = "importData"
     /\ last.mode = "replace"
     /\ last.faultAt = 0
     /\ ExportedJustBefore)
        => /\ last.err = "none"
           /\ stores = last.pre
           /\ \A s \in StoreNames :
                 last.results[s] = [imported |-> Cardinality(DOMAIN last.pre[s]),
                                    skipped |-> 0, errors |-> 0]

\* The round trip was made on stores holding two clients, an estimate and
\* an invoice.
C1_Witness ==
    /\ last.op = "importData"
    /\ last.mode = "replace"
    /\ last.faultAt = 0
    /\ ExportedJustBefore
    /\ Cardinality(DOMAIN last.pre[STORES.CLIENTS]) = 2
    /\ DOMAIN last.pre[STORES.ESTIMATES] # {}
    /\ DOMAIN last.pre[STORES.INVOICES] # {}
    /\ stores = last.pre
    /\ last.results[STORES.CLIENTS].imported = 2

\* The string handed to the restore is the one createShareableBackup
\* returns on the stores as they were
BackedUpJustBefore ==
    \E now \in Timestamps :
        /\ createShareableBackup(last.pre, now).err = "none"
        /\ last.string = createShareableBackup(last.pre, now).value

C3_MergeUpserts ==
    (/\ last.op = "importData"
     /\ last.mode = "merge"
     /\ last.faultAt = 0
     /\ IsBundle(last.payload))
        => /\ last.err = "none"
           /\ \A i \in 1..Len(last.outcomes) :
                 LET o == last.outcomes[i]
                 IN  HasValidKey(o.store, o.rec) =>
                        /\ o.err = "none"
                        /\ o.db = [DbBefore(i) EXCEPT ![o.store] =
                                      [k \in DOMAIN @ \cup {KeyOf(o.store, o.rec)} |->
                                          IF k = KeyOf(o.store, o.rec) THEN o.rec ELSE @[k]]]
           /\ \A s \in StoreNames :
                 LET list == DataList(last.payload, s)
                 IN  /\ last.results[s].skipped = 0
                     /\ last.results[s].imported =
                            Cardinality({i \in 1..Len(list) : HasValidKey(s, list[i])})
                     /\ \A k \in DOMAIN last.pre[s] :
                           /\ k \in DOMAIN stores[s]
                           /\ stores[s][k] =
                                 IF k \in BundleKeys(s, list)
                                 THEN list[Max(Positions(s, list, k))]
                                 ELSE last.pre[s][k]

\* A merge import replaced the stored client 1 by another version of it
\* and left the stored client 2 alone.
C3_Witness ==
    /\ last.op = "importData"
    /\ last.mode = "merge"
    /\ last.faultAt = 0
    /\ IsBundle(last.payload)
    /\ DOMAIN last.pre[STORES.CLIENTS] = {1, 2}
    /\ last.payload.data.clients = <<ClientBo>>
    /\ last.pre[STORES.CLIENTS][1] = ClientAl
    /\ stores[STORES.CLIENTS][1] = ClientBo
    /\ stores[STORES.CLIENTS][2] = last.pre[STORES.CLIENTS][2]
    /\ last.results[STORES.CLIENTS] = [imported |-> 1, skipped |-> 0, errors |-> 0]

\* C4 as claimed: a replace import ends with the stores and the tallies of
\* clearAllData() followed by a merge import of the same bundle.
C4_ReplaceIsClearThenMerge ==
    (/\ last.op = "importData"
     /\ last.mode = "replace"
     /\ last.faultAt = 0
     /\ IsBundle(last.payload))
        => LET m == importData(clearAllData(last.pre), last.payload, "merge", 0)
           IN  /\ stores = m.db
               /\ last.results = m.results

NoDuplicateKeys(payload) ==
    \A s \in StoreNames :
        \A k \in BundleKeys(s, DataList(payload, s)) :
            Cardinality(Positions(s, DataList(payload, s), k)) = 1

\* C4 as amended: a replace import erases the three stores and then inserts
\* the bundle's records strictly.  Of the records of one kind that share
\* a key the first is stored and counted as imported and each later one is
\* counted as skipped; a record without a key is counted in errors.  When no
\* key occurs twice the stores and tallies are those of clearAllData()
\* followed by a merge import.
C4_ReplaceInsertsStrictly ==
    (/\ last.op = "importData"
     /\ last.mode = "replace"
     /\ last.faultAt = 0
     /\ IsBundle(last.payload))
        => /\ last.err = "none"
           /\ \A s \in StoreNames :
                 LET list == DataList(last.payload, s)
                     keys == BundleKeys(s, list)
                     keyed == {i \in 1..Len(list) : HasValidKey(s, list[i])}
                 IN  /\ DOMAIN stores[s] = keys
                     /\ \A k \in keys : stores[s][k] = list[Min(Positions(s, list, k))]
                     /\ last.results[s] =
                            [imported |-> Cardinality(keys),
                             skipped |-> Cardinality(keyed) - Cardinality(keys),
                             errors |-> Len(list) - Cardinality(keyed)]
           /\ NoDuplicateKeys(last.payload) =>
                 LET m == importData(clearAllData(last.pre), last.payload, "merge", 0)
                 IN  stores = m.db /\ last.results = m.results

\* A replace import of two versions of client 1 over stored data kept the
\* first version and counted the second as skipped.
C4_Witness ==
    /\ last.op = "importData"
    /\ last.mode = "replace"
    /\ last.faultAt = 0
    /\ IsBundle(last.payload)
    /\ DOMAIN last.pre[STORES.CLIENTS] # {}
    /\ DOMAIN last.pre[STORES.ESTIMATES] # {}
    /\ last.payload.data.clients = <<ClientAl, ClientBo>>
    /\ stores = [clients |-> (1 :> ClientAl), estimates |-> EmptyStore,
                 invoices |-> EmptyStore]
    /\ last.results[STORES.CLIENTS] = [imported |-> 1, skipped |-> 1, errors |-> 0]

\* The record of write i is stored under its key after the write
Stored(i) ==
    LET o == last.outcomes[i]
    IN  /\ HasValidKey(o.store, o.rec)
        /\ KeyOf(o.store, o.rec) \in DOMAIN o.db[o.store]
        /\ o.db[o.store][KeyOf(o.store, o.rec)] = o.rec

C6_ToleratesRecordFailure ==
    (/\ last.op = "importData"
     /\ IsBundle(last.payload))
        => /\ last.err = "none"
           /\ Len(last.outcomes) = Len(Flat(last.payload))
           /\ \A i \in 1..Len(last.outcomes) :
                 /\ last.outcomes[i].rec = Flat(last.payload)[i]
                 /\ last.outcomes[i].err # "none" => last.outcomes[i].db = DbBefore(i)
                 /\ (last.outcomes[i].err = "none" /\ HasValidKey(last.outcomes[i].store,
                                                                 last.outcomes[i].rec))
                        => Stored(i)
           /\ \A s \in StoreNames :
                 /\ last.results[s].skipped = Count(s, {"ConstraintError"})
                 /\ last.results[s].errors = Count(s, {"DataError", "UnknownError"})

\* The first write of an import failed, and the record after it, of
\* another kind, was written all the same.
C6_Witness ==
    /\ last.op = "importData"
    /\ Len(last.outcomes) = 2
    /\ last.outcomes[1].err = "UnknownError"
    /\ last.outcomes[1].store = STORES.CLIENTS
    /\ last.outcomes[2].store = STORES.ESTIMATES
    /\ last.outcomes[2].err = "none"
    /\ stores[STORES.ESTIMATES][1] = EstimateMow
    /\ last.results[STORES.CLIENTS].errors = 1
    /\ last.results[STORES.ESTIMATES].imported = 1

---------------------------------------------------------------------------
(* Properties of the repository runs *)

Enumeration(storeName) ==
    IF storeName = STORES.ESTIMATES THEN EstimateStatuses ELSE InvoiceStatuses

\* The store an update or status call of last worked on
UpdatedStore ==
    IF last.op \in {"updateEstimate", "updateEstimateStatus"}
    THEN STORES.ESTIMATES ELSE STORES.INVOICES

\* C8: update(id, {status: value}) on a stored estimate or invoice, with a
\* value outside the entity's enumeration, fails and leaves the stores as
\* they were.
C8_InvalidStatusUpdateFails ==
    (/\ last.op \in {"updateEstimate", "updateInvoice"}
     /\ last.id \in DOMAIN last.pre[UpdatedStore]
     /\ last.updates.status \notin Enumeration(UpdatedStore))
        => (last.err # "none" /\ stores = last.pre)

\* C9: every stored estimate has a status of STATUS.ESTIMATE and every
\* stored invoice a status of STATUS.INVOICE.
C9_StatusInvariant ==
    \A s \in {STORES.ESTIMATES, STORES.INVOICES} :
        \A k \in DOMAIN stores[s] :
            /\ "status" \in DOMAIN stores[s][k]
            /\ stores[s][k].status \in Enumeration(s)

\* Reading any property of a gives what reading it of b gives
SameReads(a, b) == \A f \in DOMAIN a \cup DOMAIN b : Field(a, f) = Field(b, f)

\* C10: updateEstimateStatus / updateInvoiceStatus with a value outside the
\* enumeration fail with the invalid-status error whether or not the
\* identifier is stored, and change nothing; with a value of the
\* enumeration and a stored identifier they succeed, every other record is
\* as it was, and the record reads as it did before in every property but
\* status, which reads the requested value.
C10_StatusHelpers ==
    last.op \in {"updateEstimateStatus", "updateInvoiceStatus"} =>
        LET s == UpdatedStore
        IN  /\ last.status \notin Enumeration(s) =>
                (last.err = "Invalid status" /\ stores = last.pre)
            /\ (last.status \in Enumeration(s) /\ last.id \in DOMAIN last.pre[s]) =>
                /\ last.err = "none"
                /\ \A t \in StoreNames \ {s} : stores[t] = last.pre[t]
                /\ DOMAIN stores[s] = DOMAIN last.pre[s]
                /\ \A k \in DOMAIN stores[s] \ {last.id} : stores[s][k] = last.pre[s][k]
                /\ SameReads(stores[s][last.id],
                             Spread(last.pre[s][last.id], [status |-> last.status]))

\* updateEstimateStatus has re-labelled a stored draft as rejected.
C10_Witness ==
    /\ last.op = "updateEstimateStatus"
    /\ last.err = "none"
    /\ last.id \in DOMAIN last.pre[STORES.ESTIMATES]
    /\ last.status = STATUS.ESTIMATE.REJECTED
    /\ last.pre[STORES.ESTIMATES][last.id].status = STATUS.ESTIMATE.DRAFT
    /\ stores[STORES.ESTIMATES][last.id].status = STATUS.ESTIMATE.REJECTED

---------------------------------------------------------------------------
(* Editing runs: a client, an estimate or an invoice is created and then   *)
(* updated again and again, with payloads that replace the items and       *)
(* payloads that set the fields the repository pins or derives.            *)

MaxEdited == 1       \* records stored at once (editing runs)

\* [{ description: 'Trim', quantity: 0.5, price: 0.25 }]
TrimItems == <<[description |-> "Trim", quantity |-> Scale \div 2, price |-> Scale \div 4]>>

\* A createdAt no Date.now() of these runs returned
OtherTimestamp == Max(Timestamps) + 1

\* The sales-tax rates config/business.js is given: 0.06, and none
SalesTaxRates == {ConfiguredSalesTaxRate, 0}

EditClientInputs == {[name |-> NameAl, phone |-> "555-1234"]}
EditEstimateInputs == {[clientId |-> 1, items |-> TrimItems]}
EditInvoiceInputs == {[clientId |-> 1, estimateId |-> 1, items |-> TrimItems]}

\* { items: ... }: the same line again, no line, null, and 'abc'
EditItemsPayloads == {[items |-> i] : i \in {TrimItems, <<>>, ItemsNull, ItemsString}}

\* Payloads that carry an identifier, and the pinned and derived fields
EditClientPayloads ==
    {[clientId |-> other, phone |-> "555-5678"] : other \in Ids}

EditEstimatePayloads ==
    {[estimateId |-> other, createdAt |-> OtherTimestamp, clientId |-> 2,
      total |-> 999 * Scale] : other \in Ids}

EditInvoicePayloads ==
    {[invoiceId |-> other, createdAt |-> OtherTimestamp, clientId |-> 2,
      estimateId |-> 2, taxRate |-> Scale \div 2, total |-> 999 * Scale] : other \in Ids}

EditCount(db) ==
    Cardinality(DOMAIN db[STORES.CLIENTS]) + Cardinality(DOMAIN db[STORES.ESTIMATES])
        + Cardinality(DOMAIN db[STORES.INVOICES])

NextEdit ==
    \/ \E data \in EditClientInputs, id \in Ids :
          /\ EditCount(stores) < MaxEdited
          /\ CreateClient(data, id)
    \/ \E id \in Ids, updates \in EditClientPayloads : UpdateClient(id, updates)
    \/ \E data \in EditEstimateInputs, id \in Ids, now \in Timestamps :
          /\ EditCount(stores) < MaxEdited
          /\ CreateEstimate(data, id, now)
    \/ \E id \in Ids, updates \in EditItemsPayloads \cup EditEstimatePayloads :
          UpdateEstimate(id, updates)
    \/ \E data \in EditInvoiceInputs, id \in Ids, now \in Timestamps :
          /\ EditCount(stores) < MaxEdited
          /\ CreateInvoice(data, id, now)
    \/ \E id \in Ids, updates \in EditItemsPayloads \cup EditInvoicePayloads :
          UpdateInvoice(id, updates)
    \/ \E rate \in SalesTaxRates : ConfigureSalesTaxRate(rate)
    \/ Continue

SpecEdit == Init /\ [][NextEdit]_vars

---------------------------------------------------------------------------
(* Properties of the editing runs *)

UpdateOps == {"updateClient", "updateEstimate", "updateInvoice"}

\* The store a call of last worked on
StoreOf(op) ==
    IF op \in {"createClient", "updateClient", "deleteClient"} THEN STORES.CLIENTS
    ELSE IF op \in {"createEstimate", "updateEstimate", "deleteEstimate",
                    "updateEstimateStatus", "convertEstimateToInvoice"}
    THEN STORES.ESTIMATES
    ELSE STORES.INVOICES

\* An update call of last that found its record and resolved
Updated ==
    /\ last.op \in UpdateOps
    /\ last.err = "none"
    /\ last.id \in DOMAIN last.pre[StoreOf(last.op)]

\* The record an update call of last read, and the one it wrote
Before == last.pre[StoreOf(last.op)][last.id]
After == stores[StoreOf(last.op)][last.id]

\* C11: whatever the update payloads carried, every stored record is held
\* under the identifier it carries, every stored estimate and invoice
\* carries a createdAt that Date.now() returned at a creation, and an
\* update writes the record of its identifier only: the same identifiers
\* are stored before and after, with the same identifier and createdAt in
\* the updated record, and every other record is as it was.
C11_IdentifierAndCreatedAtPinned ==
    /\ \A s \in StoreNames : \A k \in DOMAIN stores[s] :
          /\ Field(stores[s][k], KeyPath[s]) = k
          /\ s # STORES.CLIENTS => Field(stores[s][k], "createdAt") \in Timestamps
    /\ Updated =>
          /\ \A s \in StoreNames : DOMAIN stores[s] = DOMAIN last.pre[s]
          /\ \A s \in StoreNames : \A k \in DOMAIN stores[s] :
                (s # StoreOf(last.op) \/ k # last.id) => stores[s][k] = last.pre[s][k]
          /\ Field(After, KeyPath[StoreOf(last.op)]) = last.id
          /\ Field(After, "createdAt") = Field(Before, "createdAt")

\* updateEstimate has applied a payload that carries another estimateId
\* and another createdAt to a stored estimate.
C11_Witness ==
    /\ Updated
    /\ last.op = "updateEstimate"
    /\ "estimateId" \in DOMAIN last.updates
    /\ last.updates.estimateId # last.id
    /\ last.updates.createdAt # Before.createdAt
    /\ After.total = last.updates.total

\* The derived fields of an invoice, recomputed from items at rate
TotalsOf(items, rate) ==
    LET t == calculateInvoiceTotals(items, rate)
    IN  [subtotal |-> t.subtotal, taxAmount |-> t.taxAmount, total |-> t.total]

\* The derived fields a stored invoice holds
StoredTotals(invoice) ==
    [subtotal  |-> Field(invoice, "subtotal"),
     taxAmount |-> Field(invoice, "taxAmount"),
     total     |-> Field(invoice, "total")]

\* C12: every stored estimate's total is the sum of quantity * price over
\* its own items, and every stored invoice's subtotal, taxAmount and total
\* are the values computed from its own items and its own taxRate.
C12_TotalsNeverDrift ==
    /\ \A k \in DOMAIN stores[STORES.ESTIMATES] :
          LET e == stores[STORES.ESTIMATES][k]
          IN  IsArray(e.items) /\ Field(e, "total") = calculateTotal(e.items)
    /\ \A k \in DOMAIN stores[STORES.INVOICES] :
          LET i == stores[STORES.INVOICES][k]
          IN  IsArray(i.items)
                /\ StoredTotals(i) = TotalsOf(i.items, Field(i, "taxRate"))

\* createInvoice, or updateInvoice with an array of items, has stored an
\* invoice
BuiltInvoice ==
    /\ \/ last.op = "createInvoice"
       \/ /\ last.op = "updateInvoice"
          /\ HasTruthyItems(last.updates)
    /\ last.err = "none"

\* C13: the invoice createInvoice or updateInvoice with items stores has
\* taxAmount = round2(subtotal * taxRate), from the subtotal it stores, and
\* subtotal + taxAmount = total.
C13_InvoiceArithmetic ==
    BuiltInvoice =>
        LET i == stores[STORES.INVOICES][last.id]
        IN  /\ i.taxAmount = RoundCents(i.subtotal * i.taxRate, Scale * Scale)
            /\ Plus(i.subtotal, i.taxAmount) = i.total

\* The derived fields of the record an update call wrote, and of the one
\* it read
DerivedOf(op, rec) ==
    IF op = "updateEstimate" THEN [total |-> Field(rec, "total")]
    ELSE StoredTotals(rec)

\* C14: an update of an estimate or invoice whose payload has items stores
\* the derived fields computed from those items; one whose payload has no
\* items stores the derived fields the record had.
C14_RecomputesExactlyWithItems ==
    (Updated /\ last.op # "updateClient") =>
        IF "items" \in DOMAIN last.updates
        THEN /\ IsArray(last.updates.items)
             /\ DerivedOf(last.op, After) =
                    IF last.op = "updateEstimate"
                    THEN [total |-> calculateTotal(last.updates.items)]
                    ELSE TotalsOf(last.updates.items, After.taxRate)
        ELSE DerivedOf(last.op, After) = DerivedOf(last.op, Before)

\* C15: createInvoice stores the configured sales-tax rate, and no
\* updateInvoice changes the taxRate of the invoice it updates.
C15_TaxRateFrozen ==
    /\ (last.op = "createInvoice" /\ last.err = "none") =>
          stores[STORES.INVOICES][last.id].taxRate = salesTaxRate
    /\ (Updated /\ last.op = "updateInvoice") => After.taxRate = Before.taxRate

\* C16: no update changes the clientId of an estimate or an invoice, nor
\* the estimateId of an invoice that has one.
C16_OwnershipImmutable ==
    (Updated /\ last.op # "updateClient") =>
        /\ Field(After, "clientId") = Field(Before, "clientId")
        /\ (last.op = "updateInvoice" /\ Field(Before, "estimateId") # JSNull) =>
              Field(After, "estimateId") = Field(Before, "estimateId")

---------------------------------------------------------------------------
(* Ledger runs: clients, estimates and invoices are created (also from     *)
(* input that lacks what create requires), re-labelled, converted and      *)
(* deleted, under identifiers that are stored and identifiers that are     *)
(* not.                                                                    *)

MaxLedger == 3       \* records stored at once (ledger runs)

LedgerClientInputs == {[name |-> NameAl, phone |-> "555-1234"]}

\* What createEstimate and createInvoice are given: a client and a line;
\* no clientId, or null; no items, null, or 'abc'
LedgerCreateInputs ==
    {[clientId |-> 1, items |-> MowItems],
     [items |-> MowItems],
     [clientId |-> JSNull, items |-> MowItems],
     [clientId |-> 1],
     [clientId |-> 1, items |-> ItemsNull],
     [clientId |-> 1, items |-> ItemsString]}

LedgerClientPayloads == {[phone |-> "555-5678"]}
LedgerEstimatePayloads == {[status |-> STATUS.ESTIMATE.SENT]}
LedgerInvoicePayloads == {[status |-> STATUS.INVOICE.PAID]}

\* What convertEstimateToInvoice returned for a stored estimate, as the
\* caller hands it to createInvoice
Converted(db) ==
    {convertEstimateToInvoice(db[STORES.ESTIMATES], id).value :
        id \in DOMAIN db[STORES.ESTIMATES]}

LedgerCount(db) ==
    Cardinality(DOMAIN db[STORES.CLIENTS]) + Cardinality(DOMAIN db[STORES.ESTIMATES])
        + Cardinality(DOMAIN db[STORES.INVOICES])

NextLedger ==
    \/ \E data \in LedgerClientInputs, id \in Ids :
          /\ LedgerCount(stores) < MaxLedger
          /\ CreateClient(data, id)
    \/ \E id \in Ids, updates \in LedgerClientPayloads : UpdateClient(id, updates)
    \/ \E id \in Ids : DeleteClient(id)
    \/ \E data \in LedgerCreateInputs, id \in Ids, now \in Timestamps :
          /\ LedgerCount(stores) < MaxLedger
          /\ CreateEstimate(data, id, now)
    \/ \E id \in Ids, updates \in LedgerEstimatePayloads : UpdateEstimate(id, updates)
    \/ \E id \in Ids : UpdateEstimateStatus(id, STATUS.ESTIMATE.SENT)
    \/ \E id \in Ids : ConvertEstimateToInvoice(id)
    \/ \E id \in Ids : DeleteEstimate(id)
    \/ \E data \in LedgerCreateInputs \cup Converted(stores), id \in Ids,
             now \in Timestamps :
          /\ LedgerCount(stores) < MaxLedger
          /\ CreateInvoice(data, id, now)
    \/ \E id \in Ids, updates \in LedgerInvoicePayloads : UpdateInvoice(id, updates)
    \/ \E id \in Ids : UpdateInvoiceStatus(id, STATUS.INVOICE.PAID)
    \/ \E id \in Ids : MarkInvoiceAsPaid(id)
    \/ \E id \in Ids : DeleteInvoice(id)
    \/ Continue

SpecLedger == Init /\ [][NextLedger]_vars

---------------------------------------------------------------------------
(* Properties of the ledger runs *)

FindingOps ==
    UpdateOps \cup {"updateEstimateStatus", "updateInvoiceStatus", "markInvoiceAsPaid",
                    "convertEstimateToInvoice"}

\* C17: an update, a status change to a value of the enumeration, or a
\* conversion, under an identifier its store does not hold, fails with the
\* not-found error and leaves the three stores as they were.
C17_NotFoundChangesNothing ==
    (last.op \in FindingOps /\ last.id \notin DOMAIN last.pre[StoreOf(last.op)]) =>
        (last.err = "not found" /\ stores = last.pre)

\* markInvoiceAsPaid was called with the identifier of a stored estimate
\* that no invoice has, while an invoice is stored under another one.
C17_Witness ==
    /\ last.op = "markInvoiceAsPaid"
    /\ last.id \notin DOMAIN last.pre[STORES.INVOICES]
    /\ last.id \in DOMAIN last.pre[STORES.ESTIMATES]
    /\ DOMAIN last.pre[STORES.INVOICES] # {}
    /\ last.err = "not found"

\* create input that lacks what createEstimate / createInvoice require
LacksRequired(data) ==
    \/ Field(data, "clientId") \in {Undefined, JSNull}
    \/ ~HasTruthyItems(data)
    \/ ~IsArray(data.items)

\* C18: createEstimate / createInvoice given no clientId, or items that
\* are missing or no array, fail with a validation error and change no
\* store; given a clientId and an array of items they store the record
\* under the generated identifier, with that clientId and those items,
\* whether or not a client is stored under the clientId.
C18_CreateValidatesRequiredFields ==
    last.op \in {"createEstimate", "createInvoice"} =>
        LET s == StoreOf(last.op)
        IN  /\ LacksRequired(last.data) =>
                /\ last.err \in {"clientId is required", "items array is required"}
                /\ stores = last.pre
            /\ (~LacksRequired(last.data) /\ last.id \notin DOMAIN last.pre[s]) =>
                /\ last.err = "none"
                /\ DOMAIN stores[s] = DOMAIN last.pre[s] \cup {last.id}
                /\ stores[s][last.id].clientId = last.data.clientId
                /\ stores[s][last.id].items = last.data.items
                /\ \A k \in DOMAIN last.pre[s] : stores[s][k] = last.pre[s][k]
                /\ \A t \in StoreNames \ {s} : stores[t] = last.pre[t]

\* createInvoice has stored an invoice for a clientId under which no
\* client is stored, while another client is.
C18_Witness ==
    /\ last.op = "createInvoice"
    /\ last.err = "none"
    /\ last.data.clientId \notin DOMAIN last.pre[STORES.CLIENTS]
    /\ DOMAIN last.pre[STORES.CLIENTS] # {}
    /\ last.id \in DOMAIN stores[STORES.INVOICES]

\* content without the record under key
Without(content, key) == [k \in DOMAIN content \ {key} |-> content[k]]

\* C19: deleteClient changes the clients store only, removing the record
\* under its identifier and no other; deleteEstimate does the same to the
\* estimates store; the estimates and invoices that reference what was
\* deleted are stored as before.
C19_DeleteDoesNotCascade ==
    last.op \in {"deleteClient", "deleteEstimate"} =>
        LET s == StoreOf(last.op)
        IN  /\ last.err = "none"
            /\ stores[s] = Without(last.pre[s], last.id)
            /\ \A t \in StoreNames \ {s} : stores[t] = last.pre[t]

\* deleteClient has deleted a stored client that an estimate and an
\* invoice reference, and both are still stored.
C19_Witness ==
    /\ last.op = "deleteClient"
    /\ last.id \in DOMAIN last.pre[STORES.CLIENTS]
    /\ last.id \notin DOMAIN stores[STORES.CLIENTS]
    /\ \E k \in DOMAIN stores[STORES.ESTIMATES] :
          stores[STORES.ESTIMATES][k].clientId = last.id
    /\ \E k \in DOMAIN stores[STORES.INVOICES] :
          stores[STORES.INVOICES][k].clientId = last.id

\* C20: convertEstimateToInvoice of a stored estimate resolves with
\* exactly the estimate's clientId, estimateId and items, and the three
\* stores are as they were: it stores no invoice.
C20_ConvertWritesNothing ==
    (last.op = "convertEstimateToInvoice"
        /\ last.id \in DOMAIN last.pre[STORES.ESTIMATES]) =>
        LET estimate == last.pre[STORES.ESTIMATES][last.id]
        IN  /\ last.err = "none"
            /\ last.value = [clientId   |-> estimate.clientId,
                             estimateId |-> last.id,
                             items      |-> estimate.items]
            /\ stores = last.pre

\* convertEstimateToInvoice has returned the data of a stored estimate for
\* which no invoice is stored.
C20_Witness ==
    /\ last.op = "convertEstimateToInvoice"
    /\ last.err = "none"
    /\ last.value.items = MowItems
    /\ \A k \in DOMAIN stores[STORES.INVOICES] :
          stores[STORES.INVOICES][k].estimateId # last.id

---------------------------------------------------------------------------
(* db.js: the connection manager.  Calls run concurrently: a call is the   *)
(* sequence of its steps between awaits and event callbacks, and steps of  *)
(* different calls interleave.  The engine serves the open and delete      *)
(* requests on InvoiceAppDB in the order they were placed; a delete        *)
(* request waits until every connection to the database is closed.         *)

Settled == {"resolved", "rejected"}

\* onupgradeneeded that creates the missing stores without their indexes
onupgradeneeded_StoresOnly(schema) ==
    [s \in StoreNames |-> IF s \in DOMAIN schema THEN schema[s] ELSE {}]

\* request.onupgradeneeded: a store that is missing is created with its
\* declared indexes; a store that is there is left as it is
onupgradeneeded(schema) ==
    [s \in StoreNames |-> IF s \in DOMAIN schema THEN schema[s] ELSE Indexes[s]]

\* closeDB(): the handle the module holds, closed and forgotten
closeDB(open, handle) ==
    IF handle # 0 THEN [connections |-> open \ {handle}, dbInstance |-> 0]
    ELSE [connections |-> open, dbInstance |-> 0]

\* getDB() up to its await: a call that finds no handle calls initDB, which
\* places an open request; a call that finds one goes on with it
getDB(c, entry) ==
    IF dbInstance = 0
    THEN /\ opened' = opened + 1
         /\ queue' = Append(queue, c)
         /\ calls' = [calls EXCEPT ![c] =
                Spread(entry, [pc |-> "opening", request |-> opened + 1])]
    ELSE /\ calls' = [calls EXCEPT ![c] =
                Spread(entry, [pc |-> "ready", handle |-> dbInstance])]
         /\ UNCHANGED <<opened, queue>>

\* Calls are numbered in the order they are made
NextCall(c) == calls[c].pc = "idle" /\ \A d \in 1..(c - 1) : calls[d].pc # "idle"

\* generateId returns an identifier some call already had, or the first
\* unused one
EngineIds ==
    LET used == {calls[c].id : c \in {d \in CallIds : "id" \in DOMAIN calls[d]}}
    IN  {id \in Ids : \A smaller \in 1..(id - 1) : smaller \in used}

\* No call has gone past the opening of the database
NothingOpenedYet == \A d \in CallIds : calls[d].pc \in {"idle", "opening"}

\* createClient(clientData) is called: the record is built and
\* performTransaction starts
SubmitCreateClient(c, clientData, id) ==
    /\ NextCall(c)
    /\ id \in EngineIds
    /\ getDB(c, [op |-> "createClient", data |-> clientData, id |-> id,
                 early |-> NothingOpenedYet])
    /\ UNCHANGED <<stores, salesTaxRate, last, dbInstance, connections, disk, pwaVars>>

Serving(c, pc) == queue # <<>> /\ Head(queue) = c /\ calls[c].pc = pc

\* The open request of call c succeeds: onupgradeneeded first when the
\* database on disk is older, then onsuccess stores the connection in
\* dbInstance and getDB returns what dbInstance holds
OpenSuccess(c) ==
    /\ Serving(c, "opening")
    /\ disk' = IF disk.version < DB_VERSION
               THEN [version |-> DB_VERSION, schema |-> onupgradeneeded(disk.schema)]
               ELSE disk
    /\ connections' = connections \cup {calls[c].request}
    /\ dbInstance' = calls[c].request
    /\ queue' = Tail(queue)
    /\ calls' = [calls EXCEPT ![c] =
            Spread(calls[c], [pc |-> "ready", handle |-> calls[c].request])]
    /\ UNCHANGED <<stores, salesTaxRate, last, opened, pwaVars>>

\* The open request of call c fails: onerror
OpenError(c) ==
    /\ Serving(c, "opening")
    /\ queue' = Tail(queue)
    /\ calls' = [calls EXCEPT ![c] =
            Spread(calls[c], [pc |-> "rejected", err |-> "Failed to open database"])]
    /\ UNCHANGED <<stores, salesTaxRate, last, dbInstance, connections, opened, disk, pwaVars>>

\* performTransaction whose request writes its record before it fails
Transaction_WritesBeforeFault(c, fault) ==
    LET r == createClient(stores[STORES.CLIENTS], calls[c].data, calls[c].id)
        err == IF calls[c].handle \notin connections THEN "InvalidStateError"
               ELSE IF fault THEN "UnknownError"
               ELSE r.err
    IN  /\ calls[c].pc = "ready"
        /\ stores' = IF err \in {"none", "UnknownError"}
                     THEN [stores EXCEPT ![STORES.CLIENTS] = r.content]
                     ELSE stores
        /\ calls' = [calls EXCEPT ![c] =
                Spread(calls[c], [pc |-> IF err = "none" THEN "resolved" ELSE "rejected",
                                  err |-> err])]
        /\ UNCHANGED <<salesTaxRate, last, dbInstance, connections, opened, queue, disk, pwaVars>>

\* performTransaction after getDB: the transaction on the handle and its one
\* request.  db.transaction throws on a closed connection; the request
\* fails by itself (store.add on a key that is there) or by a fault of the
\* engine, and then writes nothing.
Transaction(c, fault) ==
    LET r == createClient(stores[STORES.CLIENTS], calls[c].data, calls[c].id)
        err == IF calls[c].handle \notin connections THEN "InvalidStateError"
               ELSE IF fault THEN "UnknownError"
               ELSE r.err
    IN  /\ calls[c].pc = "ready"
        /\ stores' = IF err = "none" THEN [stores EXCEPT ![STORES.CLIENTS] = r.content]
                     ELSE stores
        /\ calls' = [calls EXCEPT ![c] =
                Spread(calls[c], [pc |-> IF err = "none" THEN "resolved" ELSE "rejected",
                                  err |-> err])]
        /\ UNCHANGED <<salesTaxRate, last, dbInstance, connections, opened, queue, disk, pwaVars>>

\* closeDB() is called
CloseDB ==
    /\ dbInstance # 0
    /\ connections' = closeDB(connections, dbInstance).connections
    /\ dbInstance' = closeDB(connections, dbInstance).dbInstance
    /\ UNCHANGED <<stores, salesTaxRate, last, opened, queue, disk, calls, pwaVars>>

\* deleteDatabase() is called: closeDB(), then the delete request
SubmitDeleteDatabase(c) ==
    /\ NextCall(c)
    /\ connections' = closeDB(connections, dbInstance).connections
    /\ dbInstance' = closeDB(connections, dbInstance).dbInstance
    /\ queue' = Append(queue, c)
    /\ calls' = [calls EXCEPT ![c] = [op |-> "deleteDatabase", pc |-> "deleting"]]
    /\ UNCHANGED <<stores, salesTaxRate, last, opened, disk, pwaVars>>

\* The delete request of call c succeeds, once no connection is open
DeleteSuccess(c) ==
    /\ Serving(c, "deleting")
    /\ connections = {}
    /\ disk' = NoDatabase
    /\ stores' = [s \in StoreNames |-> EmptyStore]
    /\ queue' = Tail(queue)
    /\ calls' = [calls EXCEPT ![c] = Spread(calls[c], [pc |-> "resolved", err |-> "none"])]
    /\ UNCHANGED <<salesTaxRate, last, dbInstance, connections, opened, pwaVars>>

\* The delete request of call c fails: onerror with request.error
DeleteError(c) ==
    /\ Serving(c, "deleting")
    /\ queue' = Tail(queue)
    /\ calls' = [calls EXCEPT ![c] = Spread(calls[c], [pc |-> "rejected", err |-> "UnknownError"])]
    /\ UNCHANGED <<stores, salesTaxRate, last, dbInstance, connections, opened, disk, pwaVars>>

\* A connection that neither dbInstance nor a running call refers to is
\* closed when the page's collector finds it, which it may never do
Collect(k) ==
    /\ k \in connections
    /\ k # dbInstance
    /\ \A c \in CallIds : calls[c].pc = "ready" => calls[c].handle # k
    /\ connections' = connections \ {k}
    /\ UNCHANGED <<stores, salesTaxRate, last, dbInstance, opened, queue, disk, calls, pwaVars>>

(* Connection runs: a page just loaded, over no database or over the one   *)
(* an earlier visit left, makes NumCalls calls in any overlap.             *)

EngineClientInputs == {[name |-> NameAl]}

InitEngine ==
    /\ stores = [s \in StoreNames |-> EmptyStore]
    /\ salesTaxRate = ConfiguredSalesTaxRate
    /\ last = [op |-> "none"]
    /\ dbInstance = 0
    /\ connections = {}
    /\ opened = 0
    /\ queue = <<>>
    /\ disk \in {NoDatabase, Installed}
    /\ calls = [c \in CallIds |-> NotCalled]
    /\ localStorage = NoItems
    /\ clock = 0
    /\ standalone = FALSE
    /\ dismissedTime = -1
    /\ caches = <<>>
    /\ worker = Parsed

\* What the engine and the microtask queue do for call c when nothing fails
Progress(c) ==
    \/ OpenSuccess(c)
    \/ Transaction(c, FALSE)
    \/ DeleteSuccess(c)

NextEngine ==
    \/ \E c \in CallIds, d \in EngineClientInputs, id \in Ids : SubmitCreateClient(c, d, id)
    \/ \E c \in CallIds : SubmitDeleteDatabase(c)
    \/ \E c \in CallIds : OpenSuccess(c)
    \/ \E c \in CallIds : OpenError(c)
    \/ \E c \in CallIds, fault \in BOOLEAN : Transaction(c, fault)
    \/ \E c \in CallIds : DeleteSuccess(c)
    \/ \E c \in CallIds : DeleteError(c)
    \/ CloseDB
    \/ \E k \in 1..NumCalls : Collect(k)

SpecEngine == InitEngine /\ [][NextEngine]_vars

\* The engine serves every request it can serve and the page runs every
\* continuation that is ready; faults, the collector and the caller's next
\* call are not owed.
SpecEngineFair == SpecEngine /\ \A c \in CallIds : WF_vars(Progress(c))


---------------------------------------------------------------------------
(* Properties of the connection runs *)

\* The calls started before any call had got past the opening of the database
EarlyCalls ==
    {c \in CallIds : calls[c].pc # "idle" /\ calls[c].op = "createClient" /\ calls[c].early}

\* C21: the store operations started before the first open has completed
\* make one call of indexedDB.open between them, and all of them that have
\* a handle have the same one.
C21_OpenedOnce ==
    /\ Cardinality({calls[c].request : c \in {e \in EarlyCalls : "request" \in DOMAIN calls[e]}}) <= 1
    /\ \A c, d \in {e \in EarlyCalls : "handle" \in DOMAIN calls[e]} :
          calls[c].handle = calls[d].handle

C26_FailuresSurfacedAndContained ==
    [][\A c \in CallIds :
          /\ calls[c].pc \in Settled => calls'[c] = calls[c]
          /\ calls[c].pc # "rejected" /\ calls'[c].pc = "rejected"
                => /\ stores' = stores
                   /\ calls[c].pc = "opening" => calls'[c].err = "Failed to open database"
                   /\ calls[c].pc = "ready" /\ calls[c].handle \in connections
                         => calls'[c].err \in
                               IF calls[c].id \in DOMAIN stores[STORES.CLIENTS]
                               THEN {"ConstraintError", "UnknownError"}
                               ELSE {"UnknownError"}]_vars

\* One call failed at the open and one at its request, after a call that
\* stored its record, which is still there
C26_Witness ==
    /\ \E c \in CallIds : calls[c].pc = "rejected" /\ calls[c].err = "Failed to open database"
    /\ \E c \in CallIds : calls[c].pc = "rejected" /\ calls[c].err = "ConstraintError"
    /\ \E c \in CallIds : /\ calls[c].pc = "resolved" /\ calls[c].op = "createClient"
                          /\ calls[c].id \in DOMAIN stores[STORES.CLIENTS]

\* C27: every call that was made settles: it resolves or it rejects.
C27_EveryCallSettles ==
    \A c \in CallIds : (calls[c].pc # "idle") ~> (calls[c].pc \in Settled)


---------------------------------------------------------------------------
(* Overlapping calls.  A call that awaits more than one performTransaction *)
(* runs each in a transaction of its own, and the transactions of other    *)
(* calls run in between: an update reads its record and later writes the   *)
(* merged one; exportAllData reads the three stores one by one.            *)

MaxOverlap == 2      \* calls that overlap

OverlapIds == 1..MaxOverlap

\* createClient / createEstimate / createInvoice, each one transaction,
\* made and completed while other calls are suspended
CreateRecord(storeName, id, now) ==
    LET r == CASE storeName = STORES.CLIENTS ->
                    createClient(stores[storeName], [name |-> NameAl], id)
               [] storeName = STORES.ESTIMATES ->
                    createEstimate(stores[storeName],
                                   [clientId |-> 1, items |-> MowItems], id, now)
               [] storeName = STORES.INVOICES ->
                    createInvoice(stores[storeName],
                                  [clientId |-> 1, items |-> MowItems], id, now,
                                  salesTaxRate)
    IN  \* generateId: the first identifier the store has not used
        /\ id = Cardinality(DOMAIN stores[storeName]) + 1
        /\ r.err = "none"
        /\ stores' = [stores EXCEPT ![storeName] = r.content]
        /\ UNCHANGED <<salesTaxRate, last, engineVars, pwaVars>>

\* updateClient / updateEstimate / updateInvoice on the store read
updateOn(storeName, content, id, updates, rate) ==
    CASE storeName = STORES.CLIENTS -> updateClient(content, id, updates)
      [] storeName = STORES.ESTIMATES -> updateEstimate(content, id, updates)
      [] storeName = STORES.INVOICES -> updateInvoice(content, id, updates, rate)

\* An update is called and its read runs: getClient / getEstimate /
\* getInvoice, then the throw when there is no such record
UpdateRead(c, storeName, id, updates) ==
    LET found == storeHas(stores[storeName], id)
        got == IF found THEN id :> stores[storeName][id] ELSE EmptyStore
    IN  /\ NextCall(c)
        /\ calls' = [calls EXCEPT ![c] =
                [op |-> "update", store |-> storeName, id |-> id, updates |-> updates,
                 got |-> got, pc |-> IF found THEN "writing" ELSE "rejected",
                 err |-> IF found THEN "none" ELSE "not found"]]
        /\ UNCHANGED <<stores, salesTaxRate, last, dbInstance, connections, opened,
                       queue, disk, pwaVars>>

\* The update's write runs: the record it read, merged, is put
UpdateWrite(c) ==
    LET s == calls[c].store
        r == updateOn(s, calls[c].got, calls[c].id, calls[c].updates, salesTaxRate)
    IN  /\ calls[c].pc = "writing"
        /\ stores' = IF r.err = "none"
                     THEN [stores EXCEPT ![s] = storePut(s, stores[s], r.value).content]
                     ELSE stores
        /\ calls' = [calls EXCEPT ![c] =
                Spread(calls[c], [pc |-> IF r.err = "none" THEN "resolved" ELSE "rejected",
                                  err |-> r.err])]
        /\ UNCHANGED <<salesTaxRate, last, dbInstance, connections, opened, queue,
                       disk, pwaVars>>

\* One of the three reads of exportAllData runs: getAllClients,
\* getAllEstimates or getAllInvoices.  torn records that a store read
\* earlier by this call had changed by the time of a later read.
ExportRead(c, storeName) ==
    LET before == IF calls[c].pc = "idle"
                  THEN [seen |-> EmptyStore, torn |-> FALSE]
                  ELSE calls[c]
    IN  /\ \/ NextCall(c)
           \/ calls[c].pc = "reading" /\ storeName \notin DOMAIN calls[c].seen
        /\ calls' = [calls EXCEPT ![c] =
                [op |-> "exportAllData", pc |-> "reading",
                 seen |-> Spread(before.seen, storeName :> stores[storeName]),
                 torn |-> \/ before.torn
                          \/ \E s \in DOMAIN before.seen : before.seen[s] # stores[s]]]
        /\ UNCHANGED <<stores, salesTaxRate, last, dbInstance, connections, opened,
                       queue, disk, pwaVars>>

\* exportAllData that counts the records stored when the bundle is built
ExportBuild_CountsStored(c, now) ==
    /\ calls[c].pc = "reading"
    /\ DOMAIN calls[c].seen = StoreNames
    /\ calls' = [calls EXCEPT ![c] =
            Spread(calls[c],
                   [pc |-> "resolved", err |-> "none",
                    value |-> Spread(exportAllData(calls[c].seen, now),
                                     [metadata |-> exportAllData(stores, now).metadata])])]
    /\ UNCHANGED <<stores, salesTaxRate, last, dbInstance, connections, opened,
                   queue, disk, pwaVars>>

\* exportAllData after Promise.all: the bundle, from the three arrays read
ExportBuild(c, now) ==
    /\ calls[c].pc = "reading"
    /\ DOMAIN calls[c].seen = StoreNames
    /\ calls' = [calls EXCEPT ![c] =
            Spread(calls[c], [pc |-> "resolved", err |-> "none",
                              value |-> exportAllData(calls[c].seen, now)])]
    /\ UNCHANGED <<stores, salesTaxRate, last, dbInstance, connections, opened,
                   queue, disk, pwaVars>>

\* getInvoicesByStatus(status), getUnpaidInvoices(), getPaidInvoices()
getInvoicesByStatus(content, status) ==
    SelectSeq(storeGetAll(content), LAMBDA invoice : Field(invoice, "status") = status)

getUnpaidInvoices(content) ==
    SelectSeq(storeGetAll(content),
              LAMBDA invoice : \/ Field(invoice, "status") = STATUS.INVOICE.DRAFT
                               \/ Field(invoice, "status") = STATUS.INVOICE.SENT)

getPaidInvoices(content) == getInvoicesByStatus(content, STATUS.INVOICE.PAID)

\* markInvoiceAsPaid(invoiceId) is called: updateInvoiceStatus finds 'paid'
\* valid and updateInvoice(invoiceId, {status: 'paid'}) makes its read
MarkInvoiceAsPaidRead(c, invoiceId) ==
    LET found == storeHas(stores[STORES.INVOICES], invoiceId)
        got == IF found THEN invoiceId :> stores[STORES.INVOICES][invoiceId]
               ELSE EmptyStore
    IN  /\ NextCall(c)
        /\ STATUS.INVOICE.PAID \in InvoiceStatuses
        /\ calls' = [calls EXCEPT ![c] =
                [op |-> "markInvoiceAsPaid", store |-> STORES.INVOICES, id |-> invoiceId,
                 updates |-> [status |-> STATUS.INVOICE.PAID],
                 got |-> got, pc |-> IF found THEN "writing" ELSE "rejected",
                 err |-> IF found THEN "none" ELSE "not found"]]
        /\ UNCHANGED <<stores, salesTaxRate, last, dbInstance, connections, opened,
                       queue, disk, pwaVars>>

(* Overlap runs: updates overlap with each other and with creations.       *)

\* Two payloads for one record that have no field in common
OverlapPayloads ==
    [clients   |-> {[phone |-> "555-5678"], [email |-> "al@example.com"]},
     estimates |-> {[status |-> STATUS.ESTIMATE.SENT], [notes |-> "front lawn"]},
     invoices  |-> {[status |-> STATUS.INVOICE.SENT], [notes |-> "front lawn"]}]

NextOverlap ==
    \/ \E s \in StoreNames, id \in Ids, now \in Timestamps :
          /\ EditCount(stores) < MaxEdited
          /\ CreateRecord(s, id, now)
    \/ \E c \in OverlapIds, s \in StoreNames, id \in Ids :
          \E updates \in OverlapPayloads[s] : UpdateRead(c, s, id, updates)
    \/ \E c \in OverlapIds, id \in Ids : MarkInvoiceAsPaidRead(c, id)
    \/ \E c \in OverlapIds : UpdateWrite(c)

SpecOverlap == Init /\ [][NextOverlap]_vars

(* Export runs: exports overlap with each other and with creations.        *)

NextExport ==
    \/ \E s \in StoreNames, id \in Ids, now \in Timestamps :
          /\ EditCount(stores) < MaxRecords
          /\ CreateRecord(s, id, now)
    \/ \E c \in OverlapIds, s \in StoreNames : ExportRead(c, s)
    \/ \E c \in OverlapIds, now \in Timestamps : ExportBuild(c, now)

SpecExport == Init /\ [][NextExport]_vars


---------------------------------------------------------------------------
(* Properties of the overlap and export runs *)

\* C30: when two updates of the same record, made with payloads that have
\* no field in common, have both returned, the stored record has every
\* field of both payloads.
C30_NoLostUpdate ==
    \A c, d \in OverlapIds :
        /\ c # d
        /\ calls[c].pc = "resolved" /\ calls[c].op = "update"
        /\ calls[d].pc = "resolved" /\ calls[d].op = "update"
        /\ calls[c].store = calls[d].store /\ calls[c].id = calls[d].id
        /\ DOMAIN calls[c].updates \cap DOMAIN calls[d].updates = {}
        => LET stored == stores[calls[c].store][calls[c].id]
           IN  /\ \A f \in DOMAIN calls[c].updates :
                      f \in DOMAIN stored /\ stored[f] = calls[c].updates[f]
               /\ \A f \in DOMAIN calls[d].updates :
                      f \in DOMAIN stored /\ stored[f] = calls[d].updates[f]

\* C23: every bundle exportAllData returns has version 1 and counts equal
\* to the lengths of its own three lists, whatever was written between its
\* reads.
C23_BundleCountsAgree ==
    \A c \in OverlapIds :
        calls[c].pc = "resolved" /\ calls[c].op = "exportAllData"
        => LET bundle == calls[c].value
           IN  /\ bundle.version = 1
               /\ bundle.metadata.clientCount = Len(bundle.data.clients)
               /\ bundle.metadata.estimateCount = Len(bundle.data.estimates)
               /\ bundle.metadata.invoiceCount = Len(bundle.data.invoices)

\* An export has returned a bundle with a record in it, after a store it
\* had read was written before it read another
C23_Witness ==
    \E c \in OverlapIds :
        /\ calls[c].pc = "resolved" /\ calls[c].op = "exportAllData"
        /\ calls[c].torn
        /\ \E s \in StoreNames : Len(calls[c].value.data[s]) > 0


\* The invoice is stored as paid: getInvoice reads 'paid', getPaidInvoices
\* returns it and getUnpaidInvoices does not
IsPaid(db, invoiceId) ==
    LET content == db[STORES.INVOICES]
        Listed(list) == \E i \in 1..Len(list) : list[i].invoiceId = invoiceId
    IN  /\ invoiceId \in DOMAIN content
        /\ Field(content[invoiceId], "status") = STATUS.INVOICE.PAID
        /\ Listed(getPaidInvoices(content))
        /\ ~Listed(getUnpaidInvoices(content))

\* Call c returns in this step
Returns(c) == calls[c].pc = "writing" /\ calls'[c].pc = "resolved"

\* C24: when markInvoiceAsPaid(id) returns the invoice is stored as paid,
\* and an invoice stored as paid stays so in every step that is not the
\* write of a call that gives that invoice a status (no run here deletes
\* or imports).
C24_PaidStaysPaid ==
    [][\A id \in Ids :
          /\ (\E c \in OverlapIds : /\ Returns(c) /\ calls[c].op = "markInvoiceAsPaid"
                                    /\ calls[c].id = id)
                => IsPaid(stores', id)
          /\ (/\ IsPaid(stores, id)
              /\ ~\E c \in OverlapIds : /\ Returns(c)
                                        /\ calls[c].store = STORES.INVOICES
                                        /\ calls[c].id = id
                                        /\ "status" \in DOMAIN calls[c].updates)
                => IsPaid(stores', id)]_vars


---------------------------------------------------------------------------
(* Estimate status as a label (repository runs) *)

\* C25: updateEstimateStatus(id, target) on a stored estimate whose status
\* is one of draft, sent, approved, rejected, with target one of them,
\* succeeds and stores target, whatever the pair.
C25_AnyStatusToAnyStatus ==
    (/\ last.op = "updateEstimateStatus"
     /\ last.id \in DOMAIN last.pre[STORES.ESTIMATES]
     /\ Field(last.pre[STORES.ESTIMATES][last.id], "status") \in EstimateStatuses
     /\ last.status \in EstimateStatuses)
        => /\ last.err = "none"
           /\ last.id \in DOMAIN stores[STORES.ESTIMATES]
           /\ stores[STORES.ESTIMATES][last.id].status = last.status

\* An approved estimate has been made a draft again
C25_Witness ==
    /\ last.op = "updateEstimateStatus"
    /\ last.err = "none"
    /\ last.id \in DOMAIN last.pre[STORES.ESTIMATES]
    /\ Field(last.pre[STORES.ESTIMATES][last.id], "status") = STATUS.ESTIMATE.APPROVED
    /\ last.status = STATUS.ESTIMATE.DRAFT
    /\ stores[STORES.ESTIMATES][last.id].status = STATUS.ESTIMATE.DRAFT


---------------------------------------------------------------------------
(* db.js: searchClientsByName *)

\* A name property that holds null (a string is the sequence of its code
\* units, none of which is negative)
NullName == <<JSNull>>

\* typeof value === 'string' for what a name property holds
IsString(o, f) == f \in DOMAIN o /\ o[f] # NullName

\* String.prototype.toLowerCase on one code unit: A-Z, and L with stroke
LowerUnit(u) ==
    IF u \in 65..90 THEN u + 32
    ELSE IF u = 321 THEN 322
    ELSE u

toLowerCase(str) == [i \in 1..Len(str) |-> LowerUnit(str[i])]

\* String.prototype.includes
includes(str, part) ==
    \E start \in 0..(Len(str) - Len(part)) :
        \A i \in 1..Len(part) : str[start + i] = part[i]

\* searchClientsByName(searchTerm): client.name.toLowerCase() throws for a
\* client whose name is null or undefined, and the call rejects
searchClientsByName(content, searchTerm) ==
    LET allClients == storeGetAll(content)
        term == toLowerCase(searchTerm)
    IN  IF \E i \in 1..Len(allClients) : ~IsString(allClients[i], "name")
        THEN [err |-> "TypeError"]
        ELSE [err |-> "none",
              value |-> SelectSeq(allClients,
                                  LAMBDA client : includes(toLowerCase(client.name), term))]

SearchClientsByName(searchTerm) ==
    LET r == searchClientsByName(stores[STORES.CLIENTS], searchTerm)
    IN  /\ Idle
        /\ last' = Spread(r, [op |-> "searchClientsByName", term |-> searchTerm,
                              pre |-> stores])
        /\ UNCHANGED <<stores, salesTaxRate, engineVars, pwaVars>>

(* Search runs: clients are created, renamed and imported, and searched.   *)

SearchClientInputs == {[name |-> NameAl], [name |-> NameLu, phone |-> "555-1234"]}

\* { name: 'Bo' }, { phone: ... }, and { name: null } as a cleared form
\* field sends it
SearchClientPayloads == {[name |-> NameBo], [phone |-> "555-5678"], [name |-> NullName]}

\* A bundle whose client was written without a name
SearchImportInputs ==
    {[data |-> [clients |-> <<[clientId |-> 1, phone |-> "555-1234"]>>]],
     [data |-> [clients |-> <<ClientBo>>]]}

\* 'al', 'A', 'O', the l with stroke, and the empty string
SearchTerms == {<<97, 108>>, <<65>>, <<79>>, <<322>>, <<>>}

NextSearch ==
    \/ \E data \in SearchClientInputs, id \in Ids : CreateClient(data, id)
    \/ \E id \in Ids, updates \in SearchClientPayloads : UpdateClient(id, updates)
    \/ \E id \in Ids : DeleteClient(id)
    \/ \E payload \in SearchImportInputs : ImportData(payload, "merge", 0)
    \/ \E term \in SearchTerms : SearchClientsByName(term)
    \/ Continue

SpecSearch == Init /\ [][NextSearch]_vars

\* The name of a stored client contains the term, both in lower case
NameContains(client, searchTerm) ==
    /\ IsString(client, "name")
    /\ \E start \in 0..Len(client.name) :
          /\ start + Len(searchTerm) <= Len(client.name)
          /\ \A i \in 1..Len(searchTerm) :
                LowerUnit(client.name[start + i]) = LowerUnit(searchTerm[i])

\* C28: searchClientsByName(term) does not fail, and returns the stored
\* clients whose name contains term, both taken in lower case, and no
\* other.
C28_SearchFindsExactlyTheMatches ==
    last.op = "searchClientsByName" =>
        /\ last.err = "none"
        /\ LET content == last.pre[STORES.CLIENTS]
               found == {last.value[i].clientId : i \in 1..Len(last.value)}
           IN  /\ found = {k \in DOMAIN content : NameContains(content[k], last.term)}
               /\ \A i \in 1..Len(last.value) :
                     last.value[i] = content[last.value[i].clientId]
               /\ Len(last.value) = Cardinality(found)


---------------------------------------------------------------------------
(* utils/pwa.js: the install prompt.  Time is counted in ticks of half a   *)
(* day; Date.now() is the clock, which the system may set to any value.    *)

MaxClock == 24       \* the latest time, in ticks

TicksPerDay == 2
DismissDays == 7

\* Number.prototype.toString on a non-negative integer: its decimal digits
\* as code units
RECURSIVE toString(_)
toString(n) ==
    IF n < 10 THEN <<48 + n>>
    ELSE Append(toString(n \div 10), 48 + (n % 10))

\* parseInt(string): the number its leading digits spell, NaN when it has
\* none
RECURSIVE LeadingDigits(_)
LeadingDigits(str) ==
    IF str = <<>> \/ Head(str) \notin 48..57 THEN <<>>
    ELSE <<Head(str)>> \o LeadingDigits(Tail(str))

RECURSIVE DigitsValue(_)
DigitsValue(digits) ==
    IF digits = <<>> THEN 0
    ELSE 10 * DigitsValue(SubSeq(digits, 1, Len(digits) - 1))
            + (digits[Len(digits)] - 48)

parseInt(str) ==
    IF LeadingDigits(str) = <<>> THEN NaN ELSE DigitsValue(LeadingDigits(str))

\* isPWA()
isPWA(displayStandalone) == displayStandalone

\* shouldShowInstallPrompt that still hides the prompt seven days after
shouldShowInstallPrompt_Inclusive(items, now, displayStandalone) ==
    IF isPWA(displayStandalone) THEN FALSE
    ELSE IF "pwaPromptDismissed" \in DOMAIN items /\ items.pwaPromptDismissed # <<>>
    THEN LET dismissedAt == parseInt(items.pwaPromptDismissed)
         IN  ~(dismissedAt # NaN /\ now - dismissedAt <= DismissDays * TicksPerDay)
    ELSE TRUE

\* shouldShowInstallPrompt(): (Date.now() - parseInt(dismissedAt)) / (one
\* day) < 7, which is false when parseInt gives NaN
shouldShowInstallPrompt(items, now, displayStandalone) ==
    IF isPWA(displayStandalone) THEN FALSE
    ELSE IF "pwaPromptDismissed" \in DOMAIN items /\ items.pwaPromptDismissed # <<>>
    THEN LET dismissedAt == parseInt(items.pwaPromptDismissed)
         IN  ~(dismissedAt # NaN /\ now - dismissedAt < DismissDays * TicksPerDay)
    ELSE TRUE

ShouldShowInstallPrompt ==
    /\ last' = [op |-> "shouldShowInstallPrompt",
                value |-> shouldShowInstallPrompt(localStorage, clock, standalone)]
    /\ UNCHANGED <<stores, salesTaxRate, engineVars, pwaVars>>

\* dismissInstallPrompt()
DismissInstallPrompt ==
    /\ localStorage' = Spread(localStorage, [pwaPromptDismissed |-> toString(clock)])
    /\ dismissedTime' = clock
    /\ last' = [op |-> "dismissInstallPrompt"]
    /\ UNCHANGED <<stores, salesTaxRate, engineVars, clock, standalone, swVars>>

\* resetInstallPrompt()
ResetInstallPrompt ==
    /\ localStorage' = [k \in DOMAIN localStorage \ {"pwaPromptDismissed"} |-> localStorage[k]]
    /\ dismissedTime' = -1
    /\ last' = [op |-> "resetInstallPrompt"]
    /\ UNCHANGED <<stores, salesTaxRate, engineVars, clock, standalone, swVars>>

\* Time passes, or the system clock is set
ClockReads(now) ==
    /\ now # clock
    /\ clock' = now
    /\ last' = [op |-> "none"]
    /\ UNCHANGED <<stores, salesTaxRate, engineVars, localStorage, standalone,
                   dismissedTime, swVars>>

\* The page is opened from the home screen, or in the browser
DisplayMode(displayStandalone) ==
    /\ displayStandalone # standalone
    /\ standalone' = displayStandalone
    /\ last' = [op |-> "none"]
    /\ UNCHANGED <<stores, salesTaxRate, engineVars, localStorage, clock,
                   dismissedTime, swVars>>

NextPrompt ==
    \/ ShouldShowInstallPrompt
    \/ DismissInstallPrompt
    \/ ResetInstallPrompt
    \/ \E now \in 0..MaxClock : ClockReads(now)
    \/ \E displayStandalone \in BOOLEAN : DisplayMode(displayStandalone)

SpecPrompt == Init /\ [][NextPrompt]_vars

\* C29: shouldShowInstallPrompt() is false in an installed app; otherwise
\* it is true when no dismissal is recorded, and after a dismissal at time
\* t it is false at every time before t + 7 days and true from then on.
C29_PromptHiddenForSevenDays ==
    last.op = "shouldShowInstallPrompt" =>
        last.value = (/\ ~standalone
                      /\ \/ dismissedTime = -1
                         \/ clock >= dismissedTime + DismissDays * TicksPerDay)

\* The prompt is shown again exactly seven days after a dismissal
C29_Witness ==
    /\ last.op = "shouldShowInstallPrompt"
    /\ last.value
    /\ dismissedTime >= 10
    /\ clock = dismissedTime + DismissDays * TicksPerDay


---------------------------------------------------------------------------
(* Deletions that overlap with updates *)

\* deleteClient / deleteEstimate / deleteInvoice, one transaction, made
\* and completed while other calls are suspended
DeleteRecord(storeName, id) ==
    /\ storeHas(stores[storeName], id)
    /\ stores' = [stores EXCEPT ![storeName] = storeDelete(stores[storeName], id)]
    /\ UNCHANGED <<salesTaxRate, last, engineVars, pwaVars>>

\* clearAllData(), completed while other calls are suspended
ClearMeanwhile ==
    /\ stores # clearAllData(stores)
    /\ stores' = clearAllData(stores)
    /\ UNCHANGED <<salesTaxRate, last, engineVars, pwaVars>>

NextRevive ==
    \/ \E s \in StoreNames, id \in Ids, now \in Timestamps :
          /\ EditCount(stores) < MaxEdited
          /\ CreateRecord(s, id, now)
    \/ \E s \in StoreNames, id \in Ids : DeleteRecord(s, id)
    \/ ClearMeanwhile
    \/ \E c \in OverlapIds, s \in StoreNames, id \in Ids :
          \E updates \in OverlapPayloads[s] : UpdateRead(c, s, id, updates)
    \/ \E c \in OverlapIds : UpdateWrite(c)

SpecRevive == Init /\ [][NextRevive]_vars

\* C31: the write of an update puts no record under an identifier that is
\* not stored: a record that a delete or clearAllData removed after the
\* update read it is not stored again.
C31_DeletedStaysDeleted ==
    [][\A c \in OverlapIds :
          Returns(c) /\ calls[c].op = "update"
              => calls[c].id \in DOMAIN stores[calls[c].store]]_vars


---------------------------------------------------------------------------
(* Strict insertion *)

CreateStore ==
    [createClient |-> STORES.CLIENTS, createEstimate |-> STORES.ESTIMATES,
     createInvoice |-> STORES.INVOICES]

\* C32: a create whose generated identifier is already in its store fails
\* and leaves every store as it was; a create that succeeds leaves its
\* store with exactly one more record, the new one, beside the old ones
\* unchanged.
C32_CreateNeverOverwrites ==
    last.op \in DOMAIN CreateStore =>
        LET s == CreateStore[last.op]
            before == last.pre[s]
        IN  /\ last.id \in DOMAIN before => last.err # "none" /\ stores = last.pre
            /\ last.err = "none" =>
                  /\ last.id \notin DOMAIN before
                  /\ DOMAIN stores[s] = DOMAIN before \cup {last.id}
                  /\ Cardinality(DOMAIN stores[s]) = Cardinality(DOMAIN before) + 1
                  /\ \A k \in DOMAIN before : stores[s][k] = before[k]
                  /\ \A t \in StoreNames \ {s} : stores[t] = last.pre[t]

C32_Witness ==
    /\ last.op = "createInvoice"
    /\ last.id \in DOMAIN last.pre[STORES.INVOICES]
    /\ last.err = "ConstraintError"
    /\ stores[STORES.INVOICES] # EmptyStore


---------------------------------------------------------------------------
(* Validation of the bundle *)

\* !importData || !importData.data
LacksData(payload) == "null" \in DOMAIN payload \/ "data" \notin DOMAIN payload

\* C34: importData of a payload that is null or has no data rejects with
\* 'Invalid import data format' and leaves the three stores as they were,
\* in merge mode and in replace mode, with no write attempted.
C34_InvalidBundleTouchesNothing ==
    (last.op = "importData" /\ LacksData(last.payload))
        => /\ last.err = "Invalid import data format"
           /\ stores = last.pre
           /\ last.outcomes = <<>>

\* A replace import of an object without data was rejected on stores that
\* hold records.
C34_Witness ==
    /\ last.op = "importData"
    /\ last.mode = "replace"
    /\ last.payload = [version |-> 1]
    /\ last.err = "Invalid import data format"
    /\ last.pre[STORES.CLIENTS] # EmptyStore
    /\ stores = last.pre


---------------------------------------------------------------------------
(* importData step by step: one step per awaited transaction *)

\* Where importData stands when it goes on from the top of loop k, record
\* n: at the next write it awaits, at the TypeError of a list that is not
\* iterable, or at its return
RECURSIVE seek(_, _, _)
seek(payload, k, n) ==
    IF k > Len(ImportOrder) THEN [pc |-> "resolved", err |-> "none", k |-> k, n |-> n]
    ELSE IF ~IsIterable(payload, ImportOrder[k])
    THEN [pc |-> "rejected", err |-> "TypeError", k |-> k, n |-> n]
    ELSE IF n > Len(DataList(payload, ImportOrder[k])) THEN seek(payload, k + 1, 1)
    ELSE [pc |-> "writing", err |-> "none", k |-> k, n |-> n]

\* importData(payload, mode) up to its first await: the check of the
\* payload, then clearAllData() issues its three transactions (replace) or
\* the loops start (merge)
ImportStart(c, payload, mode) ==
    LET call == [op |-> "importData", payload |-> payload, mode |-> mode,
                 pending |-> {}, cleared |-> {}, failed |-> {},
                 results |-> NoResults, outcomes |-> <<>>]
    IN  /\ NextCall(c)
        /\ calls' = [calls EXCEPT ![c] =
              IF LacksData(payload)
              THEN Spread(call, [pc |-> "rejected", k |-> 1, n |-> 1,
                                 err |-> "Invalid import data format"])
              ELSE IF mode = "replace"
              THEN Spread(call, [pc |-> "clearing", k |-> 1, n |-> 1,
                                 err |-> "none", pending |-> StoreNames])
              ELSE Spread(call, seek(payload, 1, 1))]
        /\ UNCHANGED <<stores, salesTaxRate, last, dbInstance, connections,
                       opened, queue, disk, pwaVars>>

\* clearAllData that goes on as soon as one store is cleared
ClearStore_Race(c, s, fault) ==
    LET call == calls[c]
    IN  /\ call.pc # "idle"
        /\ call.op = "importData"
        /\ s \in call.pending
        /\ stores' = IF fault THEN stores
                     ELSE [stores EXCEPT ![s] = storeClear(stores[s])]
        /\ calls' = [calls EXCEPT ![c] =
              IF fault
              THEN Spread(call, [pending |-> call.pending \ {s},
                                 failed |-> call.failed \cup {s},
                                 pc |-> IF call.pc = "clearing" THEN "rejected" ELSE call.pc,
                                 err |-> IF call.pc = "clearing" THEN "UnknownError"
                                         ELSE call.err])
              ELSE IF call.pc = "clearing"
              THEN Spread(Spread(call, [pending |-> call.pending \ {s},
                                        cleared |-> call.cleared \cup {s}]),
                          seek(call.payload, 1, 1))
              ELSE Spread(call, [pending |-> call.pending \ {s},
                                 cleared |-> call.cleared \cup {s}])]
        /\ UNCHANGED <<salesTaxRate, last, dbInstance, connections, opened,
                       queue, disk, pwaVars>>

\* One of the three transactions of clearAllData ends: store.clear() on s,
\* or a failure of the engine.  Promise.all rejects at the first failure
\* and resolves when the three have succeeded; the transactions already
\* issued run whatever became of the others.
ClearStore(c, s, fault) ==
    LET call == calls[c]
    IN  /\ call.pc # "idle"
        /\ call.op = "importData"
        /\ s \in call.pending
        /\ stores' = IF fault THEN stores
                     ELSE [stores EXCEPT ![s] = storeClear(stores[s])]
        /\ calls' = [calls EXCEPT ![c] =
              IF fault
              THEN Spread(call, [pending |-> call.pending \ {s},
                                 failed |-> call.failed \cup {s},
                                 pc |-> IF call.pc = "clearing" THEN "rejected" ELSE call.pc,
                                 err |-> IF call.pc = "clearing" THEN "UnknownError"
                                         ELSE call.err])
              ELSE IF call.pc = "clearing" /\ call.pending = {s} /\ call.failed = {}
              THEN Spread(Spread(call, [pending |-> {},
                                        cleared |-> call.cleared \cup {s}]),
                          seek(call.payload, 1, 1))
              ELSE Spread(call, [pending |-> call.pending \ {s},
                                 cleared |-> call.cleared \cup {s}])]
        /\ UNCHANGED <<salesTaxRate, last, dbInstance, connections, opened,
                       queue, disk, pwaVars>>

\* The write importData awaits ends (as the engine decides, or with a
\* failure of its own), the catch block tallies it, and importData goes on
\* to its next await or to its end
ImportWrite(c, fault) ==
    LET call == calls[c]
        s == ImportOrder[call.k]
        st == importRecord([db |-> stores, results |-> call.results,
                            outcomes |-> call.outcomes],
                           call.mode, s, DataList(call.payload, s)[call.n],
                           IF fault THEN Len(call.outcomes) + 1 ELSE 0)
    IN  /\ call.pc = "writing"
        /\ call.op = "importData"
        /\ stores' = st.db
        /\ calls' = [calls EXCEPT ![c] =
              Spread(Spread(call, [results |-> st.results, outcomes |-> st.outcomes]),
                     seek(call.payload, call.k, call.n + 1))]
        /\ UNCHANGED <<salesTaxRate, last, dbInstance, connections, opened,
                       queue, disk, pwaVars>>

ReplaceBundles ==
    {[data |-> [clients |-> <<ClientBo>>, estimates |-> <<EstimateMow>>,
                invoices |-> <<>>]],
     [data |-> [clients |-> <<>>, estimates |-> <<>>, invoices |-> <<InvoiceMow>>]],
     [version |-> 1]}

\* The imports in flight at a time
MaxImports == 1
ImportIds == 1..MaxImports

NextReplace ==
    \/ \E s \in StoreNames, id \in Ids, now \in Timestamps :
          /\ EditCount(stores) < MaxRecords
          /\ \A c \in CallIds : calls[c].pc = "idle"
          /\ CreateRecord(s, id, now)
    \/ \E c \in ImportIds, payload \in ReplaceBundles, mode \in {"merge", "replace"} :
          ImportStart(c, payload, mode)
    \/ \E c \in ImportIds, s \in StoreNames, fault \in BOOLEAN : ClearStore(c, s, fault)
    \/ \E c \in ImportIds, fault \in BOOLEAN : ImportWrite(c, fault)

SpecReplace == Init /\ [][NextReplace]_vars

\* C33: a replace import has attempted no write of a bundle record unless
\* the clearing of all three stores has succeeded; when the clearing of a
\* store failed, the import is rejected and has attempted no write.
C33_ClearsBeforeItWrites ==
    \A c \in ImportIds :
        (calls[c].pc # "idle" /\ calls[c].op = "importData" /\ calls[c].mode = "replace")
            => /\ calls[c].outcomes # <<>> => calls[c].cleared = StoreNames
               /\ calls[c].failed # {} =>
                     calls[c].pc = "rejected" /\ calls[c].outcomes = <<>>

\* A replace import wrote its two records after the three stores, one of
\* which held a record, were cleared.
C33_Witness ==
    /\ calls[1].pc = "resolved"
    /\ calls[1].op = "importData"
    /\ calls[1].mode = "replace"
    /\ Len(calls[1].outcomes) = 2
    /\ calls[1].cleared = StoreNames
    /\ calls[1].outcomes[1].err = "none"
    /\ DOMAIN stores[STORES.INVOICES] = {}
    /\ DOMAIN stores[STORES.CLIENTS] # {}

\* A replace import was rejected because the clearing of a store failed;
\* the stores the other clears emptied stay empty.
C33_Rejected ==
    \E c \in ImportIds :
        /\ calls[c].pc = "rejected"
        /\ calls[c].op = "importData"
        /\ calls[c].failed # {}
        /\ calls[c].pending = {}
        /\ calls[c].outcomes = <<>>

---------------------------------------------------------------------------
(* The paid and unpaid lists *)

Listed(list, invoiceId) ==
    \E i \in 1..Len(list) : Field(list[i], "invoiceId") = invoiceId

\* C35: every stored invoice is in exactly one of getUnpaidInvoices() and
\* getPaidInvoices(), and the two lists together have as many records as
\* getAllInvoices().
C35_PaidUnpaidPartition ==
    LET content == stores[STORES.INVOICES]
        unpaid == getUnpaidInvoices(content)
        paid == getPaidInvoices(content)
    IN  /\ \A k \in DOMAIN content : Listed(unpaid, k) # Listed(paid, k)
        /\ Len(unpaid) + Len(paid) = Len(storeGetAll(content))


---------------------------------------------------------------------------
(* The handles the module has open *)

OpenPending == \E c \in CallIds : calls[c].pc = "opening"

\* C36: at most one connection opened by the module is open; when the
\* module holds no handle (closeDB has run, or nothing was opened) and no
\* open is pending, no connection is open.
C36_HandleLifecycle ==
    /\ Cardinality(connections) <= 1
    /\ (dbInstance = 0 /\ ~OpenPending) => connections = {}


---------------------------------------------------------------------------
(* performTransaction and the commit of its transaction *)

\* The transaction of call c has made its request and is not finished
Active(c) == calls[c].pc # "idle" /\ "txn" \in DOMAIN calls[c] /\ calls[c].txn = "active"

WriteOps == {"createClient", "updateClient", "deleteClient"}

\* What the one request of the call's readwrite transaction does to the
\* clients store
requestOf(op, content, id) ==
    CASE op = "createClient" -> createClient(content, [name |-> NameAl], id)
      [] op = "updateClient" -> updateClient(content, id, [phone |-> "555-5678"])
      [] op = "deleteClient" -> deleteClient(content, id)

\* performTransaction(STORES.CLIENTS, 'readwrite', operation) up to
\* request.onsuccess / request.onerror: the engine starts the transaction
\* when no other readwrite transaction on the store is running, the request
\* is made, and the promise resolves or rejects with the request.  The
\* transaction of a request that succeeded is still to be committed; staged
\* is the store as it will be when it is.
RequestEnds(c, op, id) ==
    LET content == stores[STORES.CLIENTS]
        r == requestOf(op, content, id)
    IN  /\ NextCall(c)
        /\ \A d \in CallIds : ~Active(d)
        /\ op = "updateClient" => storeHas(content, id)
        /\ calls' = [calls EXCEPT ![c] =
              IF r.err = "none"
              THEN [op |-> op, id |-> id, pc |-> "resolved", err |-> "none",
                    txn |-> "active", staged |-> r.content]
              ELSE [op |-> op, id |-> id, pc |-> "rejected", err |-> r.err,
                    txn |-> "aborted", staged |-> content]]
        /\ UNCHANGED <<stores, salesTaxRate, last, dbInstance, connections,
                       opened, queue, disk, pwaVars>>

\* The transaction commits: complete
Commit(c) ==
    /\ Active(c)
    /\ stores' = [stores EXCEPT ![STORES.CLIENTS] = calls[c].staged]
    /\ calls' = [calls EXCEPT ![c].txn = "committed"]
    /\ UNCHANGED <<salesTaxRate, last, dbInstance, connections, opened, queue,
                   disk, pwaVars>>

\* The commit fails (the quota is exceeded, the disk fails): abort.  No
\* handler is set on the transaction.
Abort(c) ==
    /\ Active(c)
    /\ calls' = [calls EXCEPT ![c].txn = "aborted"]
    /\ UNCHANGED <<stores, salesTaxRate, last, dbInstance, connections, opened,
                   queue, disk, pwaVars>>

\* getClient(id): a readonly transaction, started when no readwrite
\* transaction on the store is running
GetClient(c, id) ==
    /\ NextCall(c)
    /\ \A d \in CallIds : ~Active(d)
    /\ calls' = [calls EXCEPT ![c] =
          [op |-> "getClient", id |-> id, pc |-> "resolved", err |-> "none",
           found |-> storeHas(stores[STORES.CLIENTS], id)]]
    /\ UNCHANGED <<stores, salesTaxRate, last, dbInstance, connections, opened,
                   queue, disk, pwaVars>>

NextCommit ==
    \/ \E c \in CallIds, op \in WriteOps, id \in Ids : RequestEnds(c, op, id)
    \/ \E c \in CallIds : Commit(c)
    \/ \E c \in CallIds : Abort(c)
    \/ \E c \in CallIds, id \in Ids : GetClient(c, id)

SpecCommit == Init /\ [][NextCommit]_vars

\* The last write on the record of id that was reported as a success before
\* call g was made (0: none)
LastReported(g, id) ==
    LET ws == {c \in 1..(g - 1) :
                  calls[c].op \in WriteOps /\ calls[c].id = id /\ calls[c].pc = "resolved"}
    IN  IF ws = {} THEN 0 ELSE CHOOSE c \in ws : \A d \in ws : d <= c

\* C37: the transaction of a write that resolved is not aborted, and a
\* getClient made after it finds what the last write reported as a success
\* left: the record after a create or an update, nothing after a delete.
C37_ReportedWriteIsCommitted ==
    /\ \A c \in CallIds :
          (calls[c].pc = "resolved" /\ calls[c].op \in WriteOps)
              => calls[c].txn # "aborted"
    /\ \A g \in CallIds :
          (calls[g].pc = "resolved" /\ calls[g].op = "getClient"
              /\ LastReported(g, calls[g].id) # 0)
              => calls[g].found = (calls[LastReported(g, calls[g].id)].op # "deleteClient")


---------------------------------------------------------------------------
(* Running a merge import again *)

\* The merge import that last records, run once more on the stores it left,
\* with no failure of the engine
Rerun == importData(stores, last.payload, "merge", 0)

MergedCleanly ==
    /\ last.op = "importData"
    /\ last.mode = "merge"
    /\ last.faultAt = 0
    /\ last.err = "none"

Keyed(s, list) == {i \in 1..Len(list) : HasValidKey(s, list[i])}

---------------------------------------------------------------------------
(* service-worker.js *)
(* CacheStorage is the sequence of the origin's caches in the order they   *)
(* were created; a cache is [name, entries], entries a function from the   *)
(* request URL to the response stored for it.                              *)

CACHE_NAME == "omc-invoice-app-v4"

urlsToCache ==
    {"./", "./index.html", "./manifest.json", "./icon-watchos-129x129@2x.png",
     "./vendor/jspdf.umd.min.js"}

\* The caches an origin may hold when the worker is installed: the one of
\* this version, the one of the version before, and one of another script
AppPrefix == "omc-invoice-app"
CacheNames ==
    [n \in {CACHE_NAME, "omc-invoice-app-v3", "workbox-precache"} |->
        IF n = "workbox-precache" THEN "workbox" ELSE AppPrefix]

\* A request the page makes for a file that is not in urlsToCache
BundleUrl == "./static/js/main.js"
Requests == urlsToCache \cup {BundleUrl}

NoEntries == [u \in {} |-> ""]

\* The response of the network to a request now, and the one a cache filled
\* on an earlier visit holds
Deployed == "deployed"
Stale == "stale"
NetworkError == "network error"

\* caches.keys()
keys(list) == [i \in 1..Len(list) |-> list[i].name]
Names(list) == {list[i].name : i \in 1..Len(list)}

\* caches.open(name): the cache is created when there is none of that name
open(list, name) ==
    IF name \in Names(list) THEN list
    ELSE Append(list, [name |-> name, entries |-> NoEntries])

\* cache.addAll(urls) on the cache called name, every request answered
addAll(list, name, urls) ==
    [i \in 1..Len(list) |->
        IF list[i].name = name
        THEN [list[i] EXCEPT !.entries =
                 [u \in DOMAIN @ \cup urls |-> IF u \in urls THEN Deployed ELSE @[u]]]
        ELSE list[i]]

\* caches.match(request): the response of the oldest cache that has one
match(list, request) ==
    LET hits == {i \in 1..Len(list) : request \in DOMAIN list[i].entries}
    IN  IF hits = {} THEN [found |-> FALSE]
        ELSE [found |-> TRUE,
              response |-> list[CHOOSE i \in hits : \A j \in hits : i <= j].entries[request]]

EntriesOf(list, name) ==
    LET at == {i \in 1..Len(list) : list[i].name = name}
    IN  IF at = {} THEN NoEntries ELSE list[CHOOSE i \in at : TRUE].entries

\* The install handler: caches.open(CACHE_NAME), cache.addAll(urlsToCache),
\* skipWaiting().  addAll stores every response or, when a request fails,
\* none; a worker whose install promise rejects is discarded.
Install(online) ==
    /\ worker.phase = "parsed"
    /\ caches' = IF online THEN addAll(open(caches, CACHE_NAME), CACHE_NAME, urlsToCache)
                 ELSE open(caches, CACHE_NAME)
    /\ worker' = [phase |-> IF online THEN "installed" ELSE "redundant",
                  event |-> "install", pre |-> caches]
    /\ UNCHANGED <<stores, salesTaxRate, last, engineVars, localStorage, clock,
                   standalone, dismissedTime>>

\* activate that deletes the caches of this app's older versions only
activate_OlderVersionsOnly(list, failing) ==
    SelectSeq(list, LAMBDA cache : \/ cache.name = CACHE_NAME
                                   \/ cache.name \in failing
                                   \/ CacheNames[cache.name] # AppPrefix)

\* The caches after the activate handler: caches.delete of every name of
\* caches.keys() that is not CACHE_NAME; failing are the names whose delete
\* rejects
activate(list, failing) ==
    SelectSeq(list, LAMBDA cache : cache.name = CACHE_NAME \/ cache.name \in failing)

\* The activate handler.  The worker becomes active whether or not the
\* promise given to waitUntil resolves.
Activate(failing) ==
    /\ worker.phase = "installed"
    /\ failing \subseteq Names(caches)
    /\ caches' = activate(caches, failing)
    /\ worker' = [phase |-> "activated", event |-> "activate", pre |-> caches,
                  result |-> IF failing = {} THEN "resolved" ELSE "rejected"]
    /\ UNCHANGED <<stores, salesTaxRate, last, engineVars, localStorage, clock,
                   standalone, dismissedTime>>

\* A fetch handler that stores what the network answered
fetchHandler_StoresResponse(list, request, online) ==
    LET cachedResponse == match(list, request)
    IN  IF cachedResponse.found
        THEN [response |-> cachedResponse.response, contacted |-> FALSE, caches |-> list]
        ELSE [response |-> IF online THEN Deployed ELSE NetworkError,
              contacted |-> TRUE,
              caches |-> IF online
                         THEN addAll(open(list, CACHE_NAME), CACHE_NAME, {request})
                         ELSE list]

\* The fetch handler: what respondWith is given, whether fetch() was
\* called, and the caches afterwards
fetchHandler(list, request, online) ==
    LET cachedResponse == match(list, request)
    IN  IF cachedResponse.found
        THEN [response |-> cachedResponse.response, contacted |-> FALSE, caches |-> list]
        ELSE [response |-> IF online THEN Deployed ELSE NetworkError,
              contacted |-> TRUE, caches |-> list]

\* A page the worker controls requests a URL
Fetch(request, online) ==
    LET r == fetchHandler(caches, request, online)
    IN  /\ worker.phase = "activated"
        /\ caches' = r.caches
        /\ worker' = [phase |-> "activated", event |-> "fetch", pre |-> caches,
                      request |-> request, online |-> online,
                      response |-> r.response, contacted |-> r.contacted,
                      result |-> worker.result]
        /\ UNCHANGED <<stores, salesTaxRate, last, engineVars, localStorage, clock,
                       standalone, dismissedTime>>

\* What earlier visits left in a cache
EarlierEntries ==
    {NoEntries, [u \in urlsToCache |-> Stale], [u \in {"./index.html", BundleUrl} |-> Stale]}

RECURSIVE CachesOver(_)
CachesOver(names) ==
    IF names = {} THEN {<<>>}
    ELSE UNION {{<<[name |-> n, entries |-> e]>> \o rest :
                    e \in EarlierEntries, rest \in CachesOver(names \ {n})} : n \in names}

InitWorker ==
    /\ stores = [s \in StoreNames |-> EmptyStore]
    /\ salesTaxRate = ConfiguredSalesTaxRate
    /\ last = [op |-> "none"]
    /\ dbInstance = 1
    /\ connections = {1}
    /\ opened = 1
    /\ queue = <<>>
    /\ disk = Installed
    /\ calls = [c \in CallIds |-> NotCalled]
    /\ localStorage = NoItems
    /\ clock = 0
    /\ standalone = FALSE
    /\ dismissedTime = -1
    /\ caches \in UNION {CachesOver(names) : names \in SUBSET DOMAIN CacheNames}
    /\ worker = Parsed

NextWorker ==
    \/ \E online \in BOOLEAN : Install(online)
    \/ \E failing \in SUBSET (DOMAIN CacheNames \ {CACHE_NAME}) : Activate(failing)
    \/ \E request \in Requests, online \in BOOLEAN : Fetch(request, online)

SpecWorker == InitWorker /\ [][NextWorker]_vars

\* C39: when the activate handler has completed, the cache named
\* CACHE_NAME is the only cache, whatever caches there were, and it holds
\* the entries it held before the handler ran; it stays the only cache
\* while the worker serves requests.
C39_ActivateLeavesCurrentCacheOnly ==
    (worker.phase = "activated" /\ worker.result = "resolved")
        => /\ keys(caches) = <<CACHE_NAME>>
           /\ worker.event = "activate" =>
                 caches[1].entries = EntriesOf(worker.pre, CACHE_NAME)

\* The handler completed on an origin that held three caches, the current
\* one among them with the files of this version.
C39_Witness ==
    /\ worker.event = "activate"
    /\ worker.result = "resolved"
    /\ Len(worker.pre) = 3
    /\ worker.pre[1].name # CACHE_NAME
    /\ keys(caches) = <<CACHE_NAME>>
    /\ DOMAIN caches[1].entries = urlsToCache \cup {BundleUrl}

Held(list, request) == \E i \in 1..Len(list) : request \in DOMAIN list[i].entries

\* C40: the fetch handler answers a request that a cache holds with a
\* response stored for it and does not call fetch(); it answers any other
\* request with what the network gave, a failure included; it leaves every
\* cache as it was.
C40_CacheFirstReadOnly ==
    worker.event = "fetch" =>
        /\ Held(worker.pre, worker.request) =>
              /\ ~worker.contacted
              /\ \E i \in 1..Len(worker.pre) :
                    /\ worker.request \in DOMAIN worker.pre[i].entries
                    /\ worker.response = worker.pre[i].entries[worker.request]
        /\ ~Held(worker.pre, worker.request) =>
              /\ worker.contacted
              /\ worker.response = IF worker.online THEN Deployed ELSE NetworkError
        /\ caches = worker.pre

\* A cached file was served while the network was there, and a file no
\* cache holds failed while it was not.
C40_Witness ==
    /\ worker.event = "fetch"
    /\ worker.request = "./index.html"
    /\ worker.online
    /\ ~worker.contacted
    /\ worker.response = Deployed
    /\ ~Held(caches, BundleUrl)

=============================================================================
